---- MODULE Spec2Model ----
(***************************************************************************)
(* Model of the NextGarage controller: the ServoGate state machine         *)
(* (src/src/actuators/servo_gate.py), the traffic light it drives, and the *)
(* occupancy / gas checks of SmartParking (src/src/parking.py) with the    *)
(* buzzer they command.                                                    *)
(*                                                                         *)
(* Time is the millisecond tick counter.  Every handler that reads         *)
(* time.ticks_ms() draws the time elapsed since the previous reading from  *)
(* a small set.  Pin levels follow the source's convention: 0 = detected / *)
(* pressed, 1 = clear / released; one level per pin is sampled per call.   *)
(***************************************************************************)
EXTENDS Integers, Sequences, FiniteSets, TLC

(***************************************************************************)
(* Bounds of the model                                                     *)
(***************************************************************************)
\* last clock value explored in the gate specification: a full opening
\* (45 steps), an interrupted and a completed safety dwell, or an opening
\* and a complete remote-commanded closing fit below it
MaxTime == 4900
\* last clock value explored in the parking and gas specifications: an
\* occupancy confirmation, an interrupted and a completed free confirmation
\* fit below it
MaxParkTime == 11000
\* last clock value explored in the specification of the main loop: an
\* opening of the gate and the iterations before and after it fit below it
MaxLoopTime == 4400
\* last clock value explored in the specification of the buzzer: several
\* periods of either alarm interval fit below it
MaxBuzzerTime == 3200

\* in the specification of the iterating loop: the instant from which the
\* sensors stay clear and no remote open arrives, and the last instant of
\* the tick counter; an opening, a dwell and a closing fit between the two
QuietTime == 4000
MaxFairTime == 8300

(***************************************************************************)
(* Program constants                                                       *)
(***************************************************************************)
STATE_IDLE == 0
STATE_GREEN == 1
STATE_OPENING == 2
STATE_WAIT_CLEAR == 3
STATE_CLOSING == 4
STATE_MANUAL_OPEN == 5

SERVO_DOWN == 0
SERVO_UP == 90
SERVO_STEP == 2
SERVO_INTERVAL == 30
SAFE_DELAY == 1000
BLINK_INTERVAL == 150

\* initialize_components() sleeps 2 s before the gate exists, so the tick
\* counter is at least this much when the main loop starts
BootTime == 2000

PinLevels == {0, 1}

\* Config (src/src/config.py)
ULTRASONIC_MIN_DISTANCE == 3
ULTRASONIC_MAX_DISTANCE == 7
ULTRASONIC_OCCUPIED_CONFIRM == 3000
ULTRASONIC_FREE_CONFIRM == 2000
MQ2_THRESHOLD == 1500
MQ2_HYSTERESIS == 200
LUX_THRESHOLD == 50
MQTT_TELEMETRY_INTERVAL == 2000
\* the defaults restored by the reset_config command
DEFAULT_MQ2_THRESH == 1500
DEFAULT_MQ2_HYST == 100
DEFAULT_LUX_THRESH == 50
\* range of the 12 bit ADC behind MQ2Sensor.read_raw()
ADC_MAX == 4095
\* the value of last_distance before the first measurement
NO_DISTANCE == 999
\* the longest wait for an edge of the echo line, in microseconds
ECHO_TIMEOUT == 10000
\* periods of the tasks of the main loop, and the hold that resets
DISTANCE_CHECK_INTERVAL == 200
MQTT_CHECK_INTERVAL == 100
GAS_CHECK_INTERVAL == 500
LIGHT_CHECK_INTERVAL == 1000
DISPLAY_INTERVAL == 1000
LONG_PRESS == 5000

\* Distances are fixed-point numbers in tenths of a centimetre, and the
\* float arithmetic of the filter is truncated to this resolution.
cm(x) == x * 10

\* time elapsed between two occupancy checks and before a gas check
ParkDts == {1000}

\* One burst of seven echo readings (ultrasonic.distance_cm(), -1 on a
\* timeout): a car at the stop, a car approaching, an object exactly at the
\* release margin seen through two bad echoes, an empty bay, no echo at all.
Bursts ==
  { <<cm(2), cm(2), cm(2), cm(2), cm(2), cm(2), cm(2)>>,
    <<cm(5), cm(5), cm(5), cm(5), cm(5), cm(5), cm(5)>>,
    <<cm(9), cm(-1), cm(9), cm(350), cm(9), cm(9), cm(9)>>,
    <<cm(20), cm(20), cm(20), cm(20), cm(20), cm(20), cm(20)>>,
    <<cm(-1), cm(-1), cm(-1), cm(-1), cm(-1), cm(-1), cm(-1)>> }

\* payloads of the configuration messages, and the parameters they address
CfgMessages == {"1000.9", "200", "-100", "abc"}
CfgParams == {"mq2_threshold", "mq2_hyst"}

\* the logical angles set_servo() accepts without clamping
ServoAngles == 0..180

\* remote requests are delivered at these positions of the sweep
RequestAngles == {0, 30, 60, 90}

VARIABLES
  clock,          \* milliseconds since boot (time.ticks_ms() before wrapping)
  servo,          \* the ServoGate object, with its TrafficLight
  clear_run,      \* history: start of the current run of clear dwell checks
  interrupted,    \* history: a running dwell was reset since WaitClear began
  parking,        \* the SmartParking object: spot, gas alarm, buzzer, leds,
                  \* configuration and MQTT handler
  far_run,        \* history: start of the current run of far occupancy checks
  far_reset,      \* history: a running free timer was reset since Occupied
  near_run,       \* history: start of the current run of stop-zone checks
  near_reset,     \* history: a running occupied timer was reset
  loop,           \* the local variables of SmartParking.run() and its position
  ran,            \* history: the tasks run so far in the current iteration
  ultrasonic,     \* a distance_cm() call: its position, the microsecond
                  \* clock, its timestamps and the value it returned
  op              \* the operation that produced the current state

vars ==
  <<clock, servo, clear_run, interrupted, parking, far_run, far_reset,
    near_run, near_reset, loop, ran, ultrasonic, op>>

(***************************************************************************)
(* time                                                                    *)
(***************************************************************************)
\* time.ticks_ms() and time.ticks_diff(): the clock stays far below the
\* period of the tick counter, so the counter is the clock and the
\* wrap-safe difference is the difference
ticks_ms(t) == t

ticks_diff(a, b) == a - b

Max(a, b) == IF a >= b THEN a ELSE b
Min(a, b) == IF a <= b THEN a ELSE b

(***************************************************************************)
(* TrafficLight                                                            *)
(***************************************************************************)
all_off(t) == [red |-> FALSE, yellow |-> FALSE, green |-> FALSE]
red_on(t) == [all_off(t) EXCEPT !.red = TRUE]
\* variant: green_on() leaves the other lights as they are
green_on_only(t) == [t EXCEPT !.green = TRUE]
green_on(t) == [all_off(t) EXCEPT !.green = TRUE]
red_off(t) == [t EXCEPT !.red = FALSE]
yellow_off(t) == [t EXCEPT !.yellow = FALSE]
green_off(t) == [t EXCEPT !.green = FALSE]
yellow_toggle(t) == [t EXCEPT !.yellow = ~t.yellow]

(***************************************************************************)
(* ServoGate                                                               *)
(***************************************************************************)
\* duty_u16 value sent for a logical angle
servo_duty(logic_angle) ==
  LET la == Max(0, Min(180, logic_angle))
      pa == Max(0, Min(180, 90 - la))
  IN 1700 + (pa * 6500) \div 180

\* variant: the pulse sent is the one of the angle stored before the call
set_servo_stale(g, logic_angle) ==
  [g EXCEPT !.duty = servo_duty(g.servo_angle),
            !.servo_angle = Max(0, Min(180, logic_angle))]

set_servo(g, logic_angle) ==
  [g EXCEPT !.duty = servo_duty(logic_angle),
            !.servo_angle = Max(0, Min(180, logic_angle))]

is_moving(g) ==
  IF g.state \in {STATE_OPENING, STATE_CLOSING}
  THEN g.servo_angle # g.target_angle
  ELSE FALSE

\* variant: the request raises the flag only
request_open_flag(g) ==
  [g EXCEPT !.remote_open_requested = TRUE]

request_open(g) ==
  [g EXCEPT !.remote_open_requested = TRUE, !.manual_mode = TRUE]

request_close(g) ==
  [g EXCEPT !.remote_close_requested = TRUE]

\* variant: the forced opening leaves the red light as it is
remote_open_accept_red(g, now) ==
  [g EXCEPT !.remote_open_requested = FALSE,
            !.state = STATE_OPENING,
            !.target_angle = SERVO_UP,
            !.manual_mode = TRUE,
            !.last_servo_move = now,
            !.traffic_light = green_off(g.traffic_light)]

\* the remote open is accepted: forced opening, then return
remote_open_accept(g, now) ==
  [g EXCEPT !.remote_open_requested = FALSE,
            !.state = STATE_OPENING,
            !.target_angle = SERVO_UP,
            !.manual_mode = TRUE,
            !.last_servo_move = now,
            !.traffic_light = red_off(green_off(g.traffic_light))]

\* variant: a close request met by an obstruction stays pending
remote_close_queued(g, now, ent, exit) ==
  IF g.remote_close_requested
     /\ g.state \in {STATE_WAIT_CLEAR, STATE_MANUAL_OPEN}
     /\ ent = 1 /\ exit = 1
  THEN [g EXCEPT !.remote_close_requested = FALSE,
                 !.state = STATE_CLOSING,
                 !.target_angle = SERVO_DOWN,
                 !.manual_mode = FALSE,
                 !.last_servo_move = now]
  ELSE g

\* if self.remote_close_requested: ...
remote_close(g, now, ent, exit) ==
  IF g.remote_close_requested
  THEN LET c == [g EXCEPT !.remote_close_requested = FALSE]
       IN IF c.state \in {STATE_WAIT_CLEAR, STATE_MANUAL_OPEN}
             /\ ent = 1 /\ exit = 1
          THEN [c EXCEPT !.state = STATE_CLOSING,
                         !.target_angle = SERVO_DOWN,
                         !.manual_mode = FALSE,
                         !.last_servo_move = now]
          ELSE c
  ELSE g

\* variant: the opening keeps the target it finds
start_opening_notarget(g, now) ==
  [g EXCEPT !.state = STATE_OPENING,
            !.last_servo_move = now,
            !.last_blink = now,
            !.manual_mode = FALSE]

\* the start of an automatic opening from Idle or Green
start_opening(g, now) ==
  [g EXCEPT !.state = STATE_OPENING,
            !.target_angle = SERVO_UP,
            !.last_servo_move = now,
            !.last_blink = now,
            !.manual_mode = FALSE]

\* variant: the entrance sensor is honoured although the lot is full
update_idle_nofull(g, now, ent, exit, full) ==
  LET r == [g EXCEPT !.traffic_light = yellow_off(red_on(g.traffic_light))]
  IN IF exit = 0
     THEN LET o == start_opening(r, now)
          IN [o EXCEPT !.traffic_light = red_off(o.traffic_light)]
     ELSE IF ent = 0
     THEN [r EXCEPT !.state = STATE_GREEN]
     ELSE r

update_idle(g, now, ent, exit, full) ==
  LET r == [g EXCEPT !.traffic_light = yellow_off(red_on(g.traffic_light))]
  IN IF exit = 0
     THEN LET o == start_opening(r, now)
          IN [o EXCEPT !.traffic_light = red_off(o.traffic_light)]
     ELSE IF full
     THEN r
     ELSE IF ent = 0
     THEN [r EXCEPT !.state = STATE_GREEN]
     ELSE r

\* variant: the button is read before the lot-full query
update_green_button(g, now, ent, exit, btn, full) ==
  LET n == [g EXCEPT !.traffic_light = green_on(g.traffic_light)]
      o == start_opening(n, now)
      p == [o EXCEPT !.traffic_light = green_off(o.traffic_light)]
  IN IF btn = 0
     THEN p
     ELSE IF full
     THEN [g EXCEPT !.traffic_light = green_off(g.traffic_light),
                    !.state = STATE_IDLE]
     ELSE IF exit = 0
     THEN p
     ELSE IF ent = 1
     THEN [n EXCEPT !.state = STATE_IDLE]
     ELSE n

update_green(g, now, ent, exit, btn, full) ==
  IF full
  THEN [g EXCEPT !.traffic_light = green_off(g.traffic_light),
                 !.state = STATE_IDLE]
  ELSE LET n == [g EXCEPT !.traffic_light = green_on(g.traffic_light)]
           o == start_opening(n, now)
           p == [o EXCEPT !.traffic_light = green_off(o.traffic_light)]
       IN IF exit = 0
          THEN p
          ELSE IF btn = 0
          THEN p
          ELSE IF ent = 1
          THEN [n EXCEPT !.state = STATE_IDLE]
          ELSE n

\* the yellow blink shared by Opening and Closing
blink(g, now) ==
  IF ticks_diff(now, g.last_blink) >= BLINK_INTERVAL
  THEN [g EXCEPT !.traffic_light = yellow_toggle(g.traffic_light),
                 !.last_blink = now]
  ELSE g

\* variant: the step is not clamped to the target
update_opening_noclamp(g, now) ==
  LET b == blink(g, now)
  IN IF ticks_diff(now, b.last_servo_move) >= SERVO_INTERVAL
     THEN LET m == [set_servo(b, b.servo_angle + SERVO_STEP)
                      EXCEPT !.last_servo_move = now]
          IN IF m.servo_angle >= SERVO_UP
             THEN [m EXCEPT !.traffic_light = yellow_off(m.traffic_light),
                            !.state = IF m.manual_mode
                                      THEN STATE_MANUAL_OPEN
                                      ELSE STATE_WAIT_CLEAR,
                            !.clear_start = 0]
             ELSE m
     ELSE b

update_opening(g, now) ==
  LET b == blink(g, now)
  IN IF ticks_diff(now, b.last_servo_move) >= SERVO_INTERVAL
     THEN LET a == IF b.servo_angle + SERVO_STEP > b.target_angle
                   THEN b.target_angle
                   ELSE b.servo_angle + SERVO_STEP
              m == [set_servo(b, a) EXCEPT !.last_servo_move = now]
          IN IF m.servo_angle >= SERVO_UP
             THEN [m EXCEPT !.traffic_light = yellow_off(m.traffic_light),
                            !.state = IF m.manual_mode
                                      THEN STATE_MANUAL_OPEN
                                      ELSE STATE_WAIT_CLEAR,
                            !.clear_start = 0]
             ELSE m
     ELSE b

\* variant: every dwell check restarts the timer
update_wait_clear_restart(g, now, ent, exit) ==
  LET w == [g EXCEPT !.traffic_light = all_off(g.traffic_light)]
  IN IF ent = 1 /\ exit = 1
     THEN [w EXCEPT !.clear_start = now]
     ELSE [w EXCEPT !.clear_start = 0]

\* variant: one clear sensor is enough for the dwell
update_wait_clear_either(g, now, ent, exit) ==
  LET w == [g EXCEPT !.traffic_light = all_off(g.traffic_light)]
  IN IF ent = 1 \/ exit = 1
     THEN LET s == IF w.clear_start = 0
                   THEN [w EXCEPT !.clear_start = now]
                   ELSE w
          IN IF ticks_diff(now, s.clear_start) >= SAFE_DELAY
             THEN [s EXCEPT !.state = STATE_CLOSING,
                            !.target_angle = SERVO_DOWN,
                            !.last_servo_move = now,
                            !.last_blink = now]
             ELSE s
     ELSE [w EXCEPT !.clear_start = 0]

\* variant: an obstruction does not restart the dwell
update_wait_clear_noreset(g, now, ent, exit) ==
  LET w == [g EXCEPT !.traffic_light = all_off(g.traffic_light)]
  IN IF ent = 1 /\ exit = 1
     THEN LET s == IF w.clear_start = 0
                   THEN [w EXCEPT !.clear_start = now]
                   ELSE w
          IN IF ticks_diff(now, s.clear_start) >= SAFE_DELAY
             THEN [s EXCEPT !.state = STATE_CLOSING,
                            !.target_angle = SERVO_DOWN,
                            !.last_servo_move = now,
                            !.last_blink = now]
             ELSE s
     ELSE w

update_wait_clear(g, now, ent, exit) ==
  LET w == [g EXCEPT !.traffic_light = all_off(g.traffic_light)]
  IN IF ent = 1 /\ exit = 1
     THEN LET s == IF w.clear_start = 0
                   THEN [w EXCEPT !.clear_start = now]
                   ELSE w
          IN IF ticks_diff(now, s.clear_start) >= SAFE_DELAY
             THEN [s EXCEPT !.state = STATE_CLOSING,
                            !.target_angle = SERVO_DOWN,
                            !.last_servo_move = now,
                            !.last_blink = now]
             ELSE s
     ELSE [w EXCEPT !.clear_start = 0]

\* variant: a closing step that is due is taken before the sensors are read
update_closing_stepfirst(g, now, ent, exit) ==
  LET b == blink(g, now)
      m == IF ticks_diff(now, b.last_servo_move) >= SERVO_INTERVAL
           THEN [set_servo(b, Max(b.servo_angle - SERVO_STEP, b.target_angle))
                   EXCEPT !.last_servo_move = now]
           ELSE b
  IN IF ent = 0 \/ exit = 0
     THEN [m EXCEPT !.state = STATE_OPENING, !.target_angle = SERVO_UP]
     ELSE IF m.servo_angle <= SERVO_DOWN
     THEN [m EXCEPT !.traffic_light = red_on(yellow_off(m.traffic_light)),
                    !.state = STATE_IDLE]
     ELSE m

\* variant: only the entrance sensor reverses a closing gate
update_closing_entrance(g, now, ent, exit) ==
  LET b == blink(g, now)
  IN IF ent = 0
     THEN [b EXCEPT !.state = STATE_OPENING, !.target_angle = SERVO_UP]
     ELSE IF ticks_diff(now, b.last_servo_move) >= SERVO_INTERVAL
     THEN LET a == IF b.servo_angle - SERVO_STEP < b.target_angle
                   THEN b.target_angle
                   ELSE b.servo_angle - SERVO_STEP
              m == [set_servo(b, a) EXCEPT !.last_servo_move = now]
          IN IF m.servo_angle <= SERVO_DOWN
             THEN [m EXCEPT !.traffic_light = red_on(yellow_off(m.traffic_light)),
                            !.state = STATE_IDLE]
             ELSE m
     ELSE b

update_closing(g, now, ent, exit) ==
  LET b == blink(g, now)
  IN IF ent = 0 \/ exit = 0
     THEN [b EXCEPT !.state = STATE_OPENING, !.target_angle = SERVO_UP]
     ELSE IF ticks_diff(now, b.last_servo_move) >= SERVO_INTERVAL
     THEN LET a == IF b.servo_angle - SERVO_STEP < b.target_angle
                   THEN b.target_angle
                   ELSE b.servo_angle - SERVO_STEP
              m == [set_servo(b, a) EXCEPT !.last_servo_move = now]
          IN IF m.servo_angle <= SERVO_DOWN
             THEN [m EXCEPT !.traffic_light = red_on(yellow_off(m.traffic_light)),
                            !.state = STATE_IDLE]
             ELSE m
     ELSE b

\* the if/elif chain on self.state; ManualOpen has no branch
state_machine(g, now, ent, exit, btn, full) ==
  CASE g.state = STATE_IDLE -> update_idle(g, now, ent, exit, full)
    [] g.state = STATE_GREEN -> update_green(g, now, ent, exit, btn, full)
    [] g.state = STATE_OPENING -> update_opening(g, now)
    [] g.state = STATE_WAIT_CLEAR -> update_wait_clear(g, now, ent, exit)
    [] g.state = STATE_CLOSING -> update_closing(g, now, ent, exit)
    [] OTHER -> g

\* variant: a remote open is accepted anew while the gate is opening
update_reopen(g, now, ent, exit, btn, full) ==
  LET f == [g EXCEPT !.is_moving_flag =
                       (g.state \in {STATE_OPENING, STATE_CLOSING})]
  IN IF f.remote_open_requested /\ f.state # STATE_MANUAL_OPEN
     THEN remote_open_accept(f, now)
     ELSE state_machine(
            remote_close([f EXCEPT !.remote_open_requested = FALSE],
                         now, ent, exit),
            now, ent, exit, btn, full)

update(g, now, ent, exit, btn, full) ==
  LET f == [g EXCEPT !.is_moving_flag =
                       (g.state \in {STATE_OPENING, STATE_CLOSING})]
  IN IF f.remote_open_requested
        /\ f.state \notin {STATE_OPENING, STATE_MANUAL_OPEN}
     THEN remote_open_accept(f, now)
     ELSE state_machine(
            remote_close([f EXCEPT !.remote_open_requested = FALSE],
                         now, ent, exit),
            now, ent, exit, btn, full)

get_state(g) ==
  LET states == <<"CHIUSA", "PRONTA", "APERTURA", "APERTA (AUTO)",
                  "CHIUSURA", "APERTA (MAN)">>
  IN IF 0 <= g.state /\ g.state < Len(states)
     THEN states[g.state + 1]
     ELSE "UNKNOWN"

\* ServoGate.__init__ followed by SmartParking.set_initial_state
ServoGateInit ==
  [state |-> STATE_IDLE,
   servo_angle |-> SERVO_DOWN,
   target_angle |-> SERVO_DOWN,
   duty |-> servo_duty(SERVO_DOWN),
   last_blink |-> 0,
   last_servo_move |-> 0,
   clear_start |-> 0,
   remote_open_requested |-> FALSE,
   remote_close_requested |-> FALSE,
   manual_mode |-> FALSE,
   is_moving_flag |-> FALSE,
   traffic_light |-> red_on([red |-> FALSE, yellow |-> FALSE, green |-> FALSE])]

(***************************************************************************)
(* Buzzer, ParkingLeds                                                     *)
(***************************************************************************)
set_frequency(b, freq) ==
  [b EXCEPT !.freq = freq, !.duty = 512, !.mode = "parking", !.active = TRUE]

\* variant: a buzzer busy with the parking tones keeps its mode
start_alarm_busy(b, freq, interval, now) ==
  [b EXCEPT !.alarm_freq = freq,
            !.alarm_interval = interval,
            !.alarm_timer = now,
            !.mode = IF b.mode = "parking" THEN "parking" ELSE "alarm",
            !.active = TRUE]

start_alarm(b, freq, interval, now) ==
  [b EXCEPT !.alarm_freq = freq,
            !.alarm_interval = interval,
            !.alarm_timer = now,
            !.mode = "alarm",
            !.active = TRUE]

\* variant: the parking stop silences the buzzer in every mode
stop_parking_assist_any(b) ==
  [b EXCEPT !.duty = 0, !.active = FALSE, !.mode = "off"]

stop_parking_assist(b) ==
  IF b.mode = "parking"
  THEN [b EXCEPT !.duty = 0, !.active = FALSE, !.mode = "off"]
  ELSE b

\* variant: the alarm stop silences a parking tone too
stop_alarm_any(b) ==
  IF b.mode \in {"alarm", "parking"}
  THEN [b EXCEPT !.duty = 0, !.active = FALSE, !.mode = "off"]
  ELSE b

stop_alarm(b) ==
  IF b.mode = "alarm"
  THEN [b EXCEPT !.duty = 0, !.active = FALSE, !.mode = "off"]
  ELSE b

stop(b) == [b EXCEPT !.duty = 0, !.active = FALSE, !.mode = "off"]

set_occupied(l) == [red |-> TRUE, green |-> FALSE]

set_free(l) == [red |-> FALSE, green |-> TRUE]

\* Buzzer.update: the intermittent alarm tone
\* variant: a toggle leaves the alarm timer as it was
buzzer_update_nostamp(b, now) ==
  IF b.mode = "alarm" /\ b.active
        /\ ticks_diff(now, b.alarm_timer) >= b.alarm_interval
  THEN IF b.duty > 0
       THEN [b EXCEPT !.duty = 0]
       ELSE [b EXCEPT !.freq = b.alarm_freq, !.duty = 512]
  ELSE b

buzzer_update(b, now) ==
  IF b.mode = "alarm" /\ b.active
        /\ ticks_diff(now, b.alarm_timer) >= b.alarm_interval
  THEN IF b.duty > 0
       THEN [b EXCEPT !.duty = 0, !.alarm_timer = now]
       ELSE [b EXCEPT !.freq = b.alarm_freq, !.duty = 512, !.alarm_timer = now]
  ELSE b

(***************************************************************************)
(* ParkingLight, BrightnessSensor, Button                                  *)
(***************************************************************************)
parking_light_on(l, brightness) == [brightness |-> 100, led |-> TRUE]

parking_light_off(l) == [brightness |-> 0, led |-> FALSE]

\* BrightnessSensor.read_lux: the sensor and the value returned; reading.ok
\* is false when the driver raises
read_lux(b, reading) ==
  IF ~b.connected
  THEN [sensor |-> b, lux |-> 0]
  ELSE IF reading.ok
  THEN [sensor |-> b, lux |-> reading.lux]
  ELSE [sensor |-> [b EXCEPT !.connected = FALSE], lux |-> 0]

\* Button.get_press_type: the button and the press type returned
get_press_type(b, now, current, short_duration, long_duration) ==
  IF current = 0
  THEN IF b.press_start = 0
       THEN [button |-> [b EXCEPT !.press_start = now], press |-> "none"]
       ELSE [button |-> b,
             press |-> IF ticks_diff(now, b.press_start) >= long_duration
                       THEN "long_press"
                       ELSE "none"]
  ELSE IF b.press_start > 0
  THEN [button |-> [b EXCEPT !.press_start = 0],
        press |-> IF ticks_diff(now, b.press_start) > short_duration
                     /\ ticks_diff(now, b.press_start) < long_duration
                  THEN "short_press"
                  ELSE "none"]
  ELSE [button |-> b, press |-> "none"]

(***************************************************************************)
(* MQTTHandler                                                             *)
(***************************************************************************)
full_topic(topic) == "parking/" \o topic

\* the topics the controller publishes retained messages on
Topics ==
  {full_topic("state/spot"), full_topic("state/gate"),
   full_topic("alarms/gas")}
    \cup {full_topic("parking/cfg/" \o p) :
            p \in {"mq2_threshold", "mq2_hyst", "lux_threshold"}}
    \cup {full_topic("parking/cfg/" \o p \o "/confirm") : p \in CfgParams}

\* setup_mqtt() leaves a connected handler, or None when the connection
\* failed; retained is the broker's retained message per topic.  The
\* last_publish timestamps, which no code reads, are left out.
MQTTHandlerInit ==
  [present |-> TRUE, connected |-> TRUE, retained |-> [t \in Topics |-> ""]]

MQTTNone ==
  [present |-> FALSE, connected |-> FALSE, retained |-> [t \in Topics |-> ""]]

\* delivered: client.publish() returns; otherwise it raises and the handler
\* marks itself disconnected
publish(m, topic, value, retain, delivered) ==
  IF ~m.connected
  THEN m
  ELSE IF delivered
  THEN IF retain
       THEN [m EXCEPT !.retained[full_topic(topic)] = value]
       ELSE m
  ELSE [m EXCEPT !.connected = FALSE]

\* msgs is a sequence of publications; the client delivers the first sent
\* of them and fails on the next
RECURSIVE publish_all(_, _, _)
publish_all(m, msgs, sent) ==
  IF msgs = <<>>
  THEN m
  ELSE publish_all(
         publish(m, Head(msgs).topic, Head(msgs).value, Head(msgs).retain,
                 sent >= 1),
         Tail(msgs), sent - 1)

\* MQTTHandler.publish_telemetry with the six entries parking.py passes
publish_telemetry_data(m, data, sent) ==
  publish_all(m,
    <<[topic |-> "state/gate", value |-> data.gate_state, retain |-> TRUE],
      [topic |-> "state/spot",
       value |-> IF data.spot_occupied THEN "OCCUPATO" ELSE "LIBERO",
       retain |-> TRUE],
      [topic |-> "ultrasonic/distance", value |-> data.distance,
       retain |-> FALSE],
      [topic |-> "env/light", value |-> data.light, retain |-> FALSE],
      [topic |-> "alarms/gas",
       value |-> IF data.gas_alarm THEN "ALLARME!" ELSE "OK",
       retain |-> TRUE],
      [topic |-> "sensors/gas", value |-> data.gas_level, retain |-> FALSE]>>,
    sent)

\* variant: a failed poll leaves the handler marked connected
check_messages_ignore(m, polled) == m

\* MQTTHandler.check_messages: polled is "none", "message" or "error" (the
\* client raises); the callback is applied by the caller
check_messages(m, polled) ==
  IF m.connected /\ polled = "error"
  THEN [m EXCEPT !.connected = FALSE]
  ELSE m

(***************************************************************************)
(* Config                                                                  *)
(***************************************************************************)
ConfigInit ==
  [ULTRASONIC_MIN_DISTANCE |-> ULTRASONIC_MIN_DISTANCE,
   ULTRASONIC_MAX_DISTANCE |-> ULTRASONIC_MAX_DISTANCE,
   ULTRASONIC_OCCUPIED_CONFIRM |-> ULTRASONIC_OCCUPIED_CONFIRM,
   ULTRASONIC_FREE_CONFIRM |-> ULTRASONIC_FREE_CONFIRM,
   MQ2_THRESHOLD |-> MQ2_THRESHOLD,
   MQ2_HYSTERESIS |-> MQ2_HYSTERESIS,
   LUX_THRESHOLD |-> LUX_THRESHOLD,
   PARKING_LIGHT_MODE |-> "AUTO",
   MQTT_TELEMETRY_INTERVAL |-> MQTT_TELEMETRY_INTERVAL]

\* float(value) succeeds on the numeric payloads; its result in tenths
is_float(value) == value \in {"1000.9", "200", "-100"}

float(value) ==
  CASE value = "1000.9" -> 10009
    [] value = "200" -> 2000
    [] value = "-100" -> -1000

\* int() of a float given in tenths: truncation toward zero
int(tenths) ==
  IF tenths >= 0 THEN tenths \div 10 ELSE -((-tenths) \div 10)

\* variant: a value that is not a number is reported as applied
update_threshold_ack(c, param, value) ==
  IF is_float(value)
  THEN [ok |-> TRUE,
        config |->
          CASE param = "mq2_threshold" ->
                 [c EXCEPT !.MQ2_THRESHOLD = int(float(value))]
            [] param = "mq2_hyst" ->
                 [c EXCEPT !.MQ2_HYSTERESIS = int(float(value))]
            [] param = "lux_threshold" ->
                 [c EXCEPT !.LUX_THRESHOLD = int(float(value))]
            [] OTHER -> c]
  ELSE [ok |-> TRUE, config |-> c]

\* Config.update_threshold: the configuration and the returned flag
update_threshold(c, param, value) ==
  IF is_float(value)
  THEN [ok |-> TRUE,
        config |->
          CASE param = "mq2_threshold" ->
                 [c EXCEPT !.MQ2_THRESHOLD = int(float(value))]
            [] param = "mq2_hyst" ->
                 [c EXCEPT !.MQ2_HYSTERESIS = int(float(value))]
            [] param = "lux_threshold" ->
                 [c EXCEPT !.LUX_THRESHOLD = int(float(value))]
            [] OTHER -> c]
  ELSE [ok |-> FALSE, config |-> c]

\* mode.upper().strip() on the payloads of the light-mode command
upper_strip(mode) ==
  CASE mode = "auto" -> "AUTO"
    [] mode = " on " -> "ON"
    [] mode = "off" -> "OFF"
    [] mode = "dim" -> "DIM"
    [] OTHER -> mode

\* Config.update_light_mode: the configuration and the returned flag
update_light_mode(c, mode) ==
  IF upper_strip(mode) \in {"AUTO", "ON", "OFF"}
  THEN [ok |-> TRUE,
        config |-> [c EXCEPT !.PARKING_LIGHT_MODE = upper_strip(mode)]]
  ELSE [ok |-> FALSE, config |-> c]

(***************************************************************************)
(* UltrasonicSensor                                                        *)
(***************************************************************************)
\* no distance_cm() call has been made: pc is the position of the call, us
\* the microsecond clock counted from its start, t0 and t1 the timestamps it
\* takes, result the value returned in tenths of a centimetre
UltrasonicInit == [pc |-> "idle", us |-> 0, t0 |-> 0, t1 |-> 0, result |-> 0]

\* the 10 us trigger pulse and t0 = time.ticks_us()
trigger(u) ==
  [pc |-> "wait_high", us |-> 10, t0 |-> 10, t1 |-> 0, result |-> 0]

\* variant: the first wait has no timeout
wait_echo_high_forever(u, echo, dt) ==
  IF echo # 0
  THEN [u EXCEPT !.pc = "wait_low", !.t1 = u.us]
  ELSE [u EXCEPT !.us = u.us + dt]

\* one round of `while self.echo.value() == 0`: the level read, and dt the
\* time until the body reads the clock
wait_echo_high(u, echo, dt) ==
  IF echo # 0
  THEN [u EXCEPT !.pc = "wait_low", !.t1 = u.us]
  ELSE IF ticks_diff(u.us + dt, u.t0) > ECHO_TIMEOUT
  THEN [u EXCEPT !.us = u.us + dt, !.pc = "returned", !.result = cm(-1)]
  ELSE [u EXCEPT !.us = u.us + dt]

\* one round of `while self.echo.value() == 1`; when the line has fallen
\* the pulse duration times 0.0343 / 2 is returned
wait_echo_low(u, echo, dt) ==
  IF echo # 1
  THEN [u EXCEPT !.pc = "returned",
                 !.result = ((u.us - u.t1) * 343) \div 2000]
  ELSE IF ticks_diff(u.us + dt, u.t1) > ECHO_TIMEOUT
  THEN [u EXCEPT !.us = u.us + dt, !.pc = "returned", !.result = cm(-1)]
  ELSE [u EXCEPT !.us = u.us + dt]

(***************************************************************************)
(* SmartParking                                                            *)
(***************************************************************************)
\* OLEDDisplay: the screen last drawn
show(screen) == [screen |-> screen]

\* SmartParking.__init__, setup_mqtt, initialize_components and
\* set_initial_state
SmartParkingInit(m) ==
  [car_parked |-> FALSE,
   gas_alarm |-> FALSE,
   parking_assist |-> FALSE,
   occupied_timer |-> 0,
   free_timer |-> 0,
   last_distance |-> cm(NO_DISTANCE),
   buzzer |-> stop([duty |-> 0, freq |-> 0, active |-> FALSE, mode |-> "off",
                    alarm_freq |-> 0, alarm_interval |-> 0,
                    alarm_timer |-> 0]),
   parking_leds |-> set_free([red |-> FALSE, green |-> FALSE]),
   alarm_led |-> FALSE,
   parking_light |-> parking_light_off([brightness |-> 0, led |-> FALSE]),
   brightness_sensor |-> [present |-> TRUE, connected |-> TRUE],
   master_button |-> [last_state |-> 1, press_start |-> 0],
   display |-> show("main"),
   config |-> ConfigInit,
   mqtt |-> m]

\* if self.mqtt: self.mqtt.publish(topic, value, retain=True)
mqtt_publish(p, topic, value, delivered) ==
  IF p.mqtt.present
  THEN [p EXCEPT !.mqtt = publish(p.mqtt, topic, value, TRUE, delivered)]
  ELSE p

\* on_mqtt_message, topic parking/cmd/reset_config; sent is the number of
\* the three publications the client delivers before it fails
reset_config(p, sent) ==
  LET c == [p EXCEPT !.config.MQ2_THRESHOLD = DEFAULT_MQ2_THRESH,
                     !.config.MQ2_HYSTERESIS = DEFAULT_MQ2_HYST,
                     !.config.LUX_THRESHOLD = DEFAULT_LUX_THRESH]
      p1 == mqtt_publish(c, "parking/cfg/mq2_threshold",
                         ToString(DEFAULT_MQ2_THRESH), sent >= 1)
      p2 == mqtt_publish(p1, "parking/cfg/mq2_hyst",
                         ToString(DEFAULT_MQ2_HYST), sent >= 2)
  IN mqtt_publish(p2, "parking/cfg/lux_threshold",
                  ToString(DEFAULT_LUX_THRESH), sent >= 3)

\* on_mqtt_message, topic parking/cfg/<levels>: param is the last level
update_config(p, levels, param, message, delivered) ==
  LET r == update_threshold(p.config, param, message)
      c == [p EXCEPT !.config = r.config]
  IN IF r.ok
     THEN mqtt_publish(c, "parking/cfg/" \o levels \o "/confirm", message,
                       delivered)
     ELSE c

apply_parking_light_mode(p) ==
  IF p.config.PARKING_LIGHT_MODE = "ON"
  THEN [p EXCEPT !.parking_light = parking_light_on(p.parking_light, 100)]
  ELSE IF p.config.PARKING_LIGHT_MODE = "OFF"
  THEN [p EXCEPT !.parking_light = parking_light_off(p.parking_light)]
  ELSE p

\* on_mqtt_message, topic parking/cmd/parking_light_mode
light_mode_command(p, message) ==
  LET r == update_light_mode(p.config, message)
  IN IF r.ok
     THEN apply_parking_light_mode([p EXCEPT !.config = r.config])
     ELSE p

\* a topic is the sequence of its levels
RECURSIVE join(_)
join(topic) ==
  IF Len(topic) = 1
  THEN topic[1]
  ELSE topic[1] \o "/" \o join(Tail(topic))

\* on_mqtt_message: the SmartParking object and its gate after the callback
on_mqtt_message(p, g, topic, message, sent) ==
  IF Len(topic) > 1 /\ topic[Len(topic)] = "confirm"
  THEN [parking |-> p, servo |-> g]
  ELSE IF topic = <<"parking", "cmd", "open_gate">>
  THEN [parking |-> p, servo |-> request_open(g)]
  ELSE IF topic = <<"parking", "cmd", "close_gate">>
  THEN [parking |-> p, servo |-> request_close(g)]
  ELSE IF topic = <<"parking", "cmd", "parking_light_mode">>
  THEN [parking |-> light_mode_command(p, message), servo |-> g]
  ELSE IF topic = <<"parking", "cmd", "reset_config">>
  THEN [parking |-> reset_config(p, sent), servo |-> g]
  ELSE IF Len(topic) >= 3 /\ SubSeq(topic, 1, 2) = <<"parking", "cfg">>
  THEN [parking |-> update_config(p, join(SubSeq(topic, 3, Len(topic))),
                                  topic[Len(topic)], message, sent >= 1),
        servo |-> g]
  ELSE [parking |-> p, servo |-> g]

\* check_brightness: the light follows the lux reading in AUTO mode
check_brightness(p, reading) ==
  IF p.config.PARKING_LIGHT_MODE # "AUTO"
  THEN p
  ELSE IF ~p.brightness_sensor.present
  THEN p
  ELSE LET r == read_lux(p.brightness_sensor, reading)
           q == [p EXCEPT !.brightness_sensor = r.sensor]
       IN IF r.lux < p.config.LUX_THRESHOLD
          THEN [q EXCEPT !.parking_light = parking_light_on(q.parking_light, 100)]
          ELSE [q EXCEPT !.parking_light = parking_light_off(q.parking_light)]

\* the lux read by publish_telemetry and update_display, if there is a sensor
sensor_lux(p, reading) ==
  IF p.brightness_sensor.present
  THEN read_lux(p.brightness_sensor, reading)
  ELSE [sensor |-> p.brightness_sensor, lux |-> 0]

\* publish_telemetry: gate state, spot, distance capped at 8 cm, light, gas
publish_telemetry(p, g, reading, gas_raw, sent) ==
  IF ~p.mqtt.present \/ ~p.mqtt.connected
  THEN p
  ELSE LET r == sensor_lux(p, reading)
           data == [gate_state |-> get_state(g),
                    spot_occupied |-> p.car_parked,
                    distance |-> Min(p.last_distance, cm(8)),
                    gas_level |-> gas_raw,
                    gas_alarm |-> p.gas_alarm,
                    light |-> r.lux]
       IN [p EXCEPT !.brightness_sensor = r.sensor,
                    !.mqtt = publish_telemetry_data(p.mqtt, data, sent)]

\* update_display: the gas screen, the assistance screen or the main screen
update_display(p, g, reading) ==
  LET r == sensor_lux(p, reading)
  IN [p EXCEPT !.brightness_sensor = r.sensor,
               !.display = IF p.gas_alarm THEN show("gas_alarm")
                           ELSE IF p.parking_assist THEN show("parking_assist")
                           ELSE show("main")]

RECURSIVE insert(_, _)
insert(s, x) ==
  IF s = <<>> THEN <<x>>
  ELSE IF x <= Head(s) THEN <<x>> \o s
  ELSE <<Head(s)>> \o insert(Tail(s), x)

\* readings.sort()
RECURSIVE sort(_)
sort(s) == IF s = <<>> THEN <<>> ELSE insert(sort(Tail(s)), Head(s))

RECURSIVE sum(_)
sum(s) == IF s = <<>> THEN 0 ELSE Head(s) + sum(Tail(s))

\* variant: the ends of the plausible range count as valid readings
valid_readings_closed(burst) ==
  SelectSeq(burst, LAMBDA d : cm(1) \div 2 <= d /\ d <= cm(300))

\* the readings of a burst inside the plausible range 0.5 cm .. 300 cm
valid_readings(burst) ==
  SelectSeq(burst, LAMBDA d : cm(1) \div 2 < d /\ d < cm(300))

\* variant: a burst without a valid reading reads as no distance
get_filtered_distance_nohold(p, burst) ==
  LET readings == sort(valid_readings(burst))
      trimmed == IF Len(readings) >= 5
                 THEN SubSeq(readings, 2, Len(readings) - 1)
                 ELSE readings
      current_avg == sum(trimmed) \div Len(trimmed)
  IN IF readings = <<>>
     THEN cm(NO_DISTANCE)
     ELSE IF p.last_distance = cm(NO_DISTANCE)
     THEN current_avg
     ELSE (current_avg * 7 + p.last_distance * 3) \div 10

\* _get_filtered_distance: trimmed mean of the burst, low-pass filtered with
\* the previous distance; the previous distance when no reading is valid
get_filtered_distance(p, burst) ==
  LET readings == sort(valid_readings(burst))
      trimmed == IF Len(readings) >= 5
                 THEN SubSeq(readings, 2, Len(readings) - 1)
                 ELSE readings
      current_avg == sum(trimmed) \div Len(trimmed)
  IN IF readings = <<>>
     THEN p.last_distance
     ELSE IF p.last_distance = cm(NO_DISTANCE)
     THEN current_avg
     ELSE (current_avg * 7 + p.last_distance * 3) \div 10

\* variant: the stop limit is not widened while the occupied timer runs
limit_nowiden(p) ==
  cm(p.config.ULTRASONIC_MIN_DISTANCE)

\* the stop limit the distance is compared with: one centimetre wider while
\* the occupied timer runs
limit(p) ==
  IF p.occupied_timer > 0
  THEN cm(p.config.ULTRASONIC_MIN_DISTANCE) + cm(1)
  ELSE cm(p.config.ULTRASONIC_MIN_DISTANCE)

\* variant: the flip to Occupied leaves the occupied timer set
check_parking_free_stop_keep(f, now, distance, delivered) ==
  LET s == [f EXCEPT !.buzzer = set_frequency(f.buzzer, 2000),
                     !.occupied_timer =
                        IF f.occupied_timer = 0 THEN now ELSE f.occupied_timer]
  IN IF ticks_diff(now, s.occupied_timer)
          >= f.config.ULTRASONIC_OCCUPIED_CONFIRM
     THEN mqtt_publish(
            [s EXCEPT !.car_parked = TRUE,
                      !.parking_leds = set_occupied(s.parking_leds),
                      !.parking_assist = FALSE,
                      !.buzzer = stop_parking_assist(s.buzzer)],
            "state/spot", "OCCUPATO", delivered)
     ELSE s

\* check_parking of a Free spot with the distance inside the stop limit
check_parking_free_stop(f, now, distance, delivered) ==
  LET s == [f EXCEPT !.buzzer = set_frequency(f.buzzer, 2000),
                     !.occupied_timer =
                        IF f.occupied_timer = 0 THEN now ELSE f.occupied_timer]
  IN IF ticks_diff(now, s.occupied_timer)
          >= f.config.ULTRASONIC_OCCUPIED_CONFIRM
     THEN mqtt_publish(
            [s EXCEPT !.car_parked = TRUE,
                      !.parking_leds = set_occupied(s.parking_leds),
                      !.parking_assist = FALSE,
                      !.buzzer = stop_parking_assist(s.buzzer),
                      !.occupied_timer = 0],
            "state/spot", "OCCUPATO", delivered)
     ELSE s

\* variant: a reading in the approach band leaves the occupied timer running
check_parking_free_nohold(p, now, distance, delivered) ==
  LET f == [p EXCEPT !.free_timer = 0]
  IN IF 0 < distance /\ distance <= limit(f)
     THEN check_parking_free_stop(f, now, distance, delivered)
     ELSE IF distance <= cm(p.config.ULTRASONIC_MAX_DISTANCE)
     THEN [f EXCEPT !.parking_assist = TRUE,
                    !.buzzer =
                       IF distance < cm(p.config.ULTRASONIC_MAX_DISTANCE) \div 2
                       THEN set_frequency(f.buzzer, 1500)
                       ELSE set_frequency(f.buzzer, 800)]
     ELSE [f EXCEPT !.parking_assist = FALSE,
                    !.buzzer = stop_parking_assist(f.buzzer),
                    !.occupied_timer = 0]

\* check_parking while the spot is Free
check_parking_free(p, now, distance, delivered) ==
  LET f == [p EXCEPT !.free_timer = 0]
  IN IF 0 < distance /\ distance <= limit(f)
     THEN check_parking_free_stop(f, now, distance, delivered)
     ELSE IF distance <= cm(p.config.ULTRASONIC_MAX_DISTANCE)
     THEN [f EXCEPT !.parking_assist = TRUE,
                    !.occupied_timer = 0,
                    !.buzzer =
                       IF distance < cm(p.config.ULTRASONIC_MAX_DISTANCE) \div 2
                       THEN set_frequency(f.buzzer, 1500)
                       ELSE set_frequency(f.buzzer, 800)]
     ELSE [f EXCEPT !.parking_assist = FALSE,
                    !.buzzer = stop_parking_assist(f.buzzer),
                    !.occupied_timer = 0]

\* variant: a reading inside the margin leaves the free timer running
check_parking_occupied_noreset(p, now, distance, delivered) ==
  LET o == [p EXCEPT !.occupied_timer = 0,
                     !.buzzer = stop_parking_assist(p.buzzer)]
  IN IF distance > cm(p.config.ULTRASONIC_MAX_DISTANCE) + cm(2)
     THEN LET s == IF o.free_timer = 0
                   THEN [o EXCEPT !.free_timer = now]
                   ELSE o
          IN IF ticks_diff(now, s.free_timer) >= p.config.ULTRASONIC_FREE_CONFIRM
             THEN mqtt_publish(
                    [s EXCEPT !.car_parked = FALSE,
                              !.parking_leds = set_free(s.parking_leds),
                              !.free_timer = 0],
                    "state/spot", "LIBERO", delivered)
             ELSE s
     ELSE o

\* check_parking while the spot is Occupied
check_parking_occupied(p, now, distance, delivered) ==
  LET o == [p EXCEPT !.occupied_timer = 0,
                     !.buzzer = stop_parking_assist(p.buzzer)]
  IN IF distance > cm(p.config.ULTRASONIC_MAX_DISTANCE) + cm(2)
     THEN LET s == IF o.free_timer = 0
                   THEN [o EXCEPT !.free_timer = now]
                   ELSE o
          IN IF ticks_diff(now, s.free_timer) >= p.config.ULTRASONIC_FREE_CONFIRM
             THEN mqtt_publish(
                    [s EXCEPT !.car_parked = FALSE,
                              !.parking_leds = set_free(s.parking_leds),
                              !.free_timer = 0],
                    "state/spot", "LIBERO", delivered)
             ELSE s
     ELSE [o EXCEPT !.free_timer = 0]

\* variant: the occupancy logic runs during a gas alarm too
check_parking_noalarm(p, now, burst, delivered) ==
  LET distance == get_filtered_distance(p, burst)
      d == [p EXCEPT !.last_distance = distance]
  IN IF ~d.car_parked
     THEN check_parking_free(d, now, distance, delivered)
     ELSE check_parking_occupied(d, now, distance, delivered)

check_parking(p, now, burst, delivered) ==
  IF p.gas_alarm
  THEN p
  ELSE LET distance == get_filtered_distance(p, burst)
           d == [p EXCEPT !.last_distance = distance]
       IN IF ~d.car_parked
          THEN check_parking_free(d, now, distance, delivered)
          ELSE check_parking_occupied(d, now, distance, delivered)

\* variant: the alarm clears as soon as the level is below the threshold
check_gas_nohyst(p, now, gas_raw) ==
  IF ~p.gas_alarm /\ gas_raw > p.config.MQ2_THRESHOLD
  THEN [p EXCEPT !.gas_alarm = TRUE,
                 !.buzzer = start_alarm(p.buzzer, 2500, 300, now),
                 !.alarm_led = TRUE]
  ELSE IF p.gas_alarm /\ gas_raw < p.config.MQ2_THRESHOLD
  THEN [p EXCEPT !.gas_alarm = FALSE,
                 !.buzzer = stop_alarm(p.buzzer),
                 !.alarm_led = FALSE]
  ELSE p

check_gas(p, now, gas_raw) ==
  IF ~p.gas_alarm /\ gas_raw > p.config.MQ2_THRESHOLD
  THEN [p EXCEPT !.gas_alarm = TRUE,
                 !.buzzer = start_alarm(p.buzzer, 2500, 300, now),
                 !.alarm_led = TRUE]
  ELSE IF p.gas_alarm
          /\ gas_raw < p.config.MQ2_THRESHOLD - p.config.MQ2_HYSTERESIS
  THEN [p EXCEPT !.gas_alarm = FALSE,
                 !.buzzer = stop_alarm(p.buzzer),
                 !.alarm_led = FALSE]
  ELSE p

\* the local variables of run() before the first iteration
LoopInit ==
  [pc |-> "update",
   current_time |-> 0,
   last_display_update |-> 0,
   last_distance_check |-> 0,
   last_gas_check |-> 0,
   last_light_check |-> 0,
   last_mqtt_telemetry |-> 0,
   last_mqtt_check |-> 0,
   was_moving |-> FALSE,
   is_moving |-> FALSE]

(***************************************************************************)
(* Specification of the gate                                               *)
(***************************************************************************)
Init ==
  /\ clock = BootTime
  /\ servo = ServoGateInit
  /\ clear_run = -1
  /\ interrupted = FALSE
  /\ parking = SmartParkingInit(MQTTHandlerInit)
  /\ far_run = -1
  /\ far_reset = FALSE
  /\ near_run = -1
  /\ near_reset = FALSE
  /\ loop = LoopInit
  /\ ran = <<>>
  /\ ultrasonic = UltrasonicInit
  /\ op = "init"

\* The time that may pass before the next update().  update() compares the
\* clock with a timestamp only in Opening, Closing and WaitClear; elsewhere
\* the clock is left where it is.  While the servo is stepping no time or
\* exactly one step interval passes, during the safety dwell none or half
\* the dwell.
GateElapsed(g) ==
  IF g.state \in {STATE_OPENING, STATE_CLOSING} THEN {0, SERVO_INTERVAL}
  ELSE IF g.state = STATE_WAIT_CLEAR THEN {0, SAFE_DELAY \div 2}
  ELSE {0}

\* the inputs of one update() call: elapsed time, the levels of the two
\* presence pins and of the button pin, the answer of is_parking_full_cb
GateCalls(g) ==
  [dt : GateElapsed(g), ent : PinLevels, exit : PinLevels,
   btn : PinLevels, full : BOOLEAN]

clear(in) == in.ent = 1 /\ in.exit = 1

\* the gate after an update() call with inputs in
after(in) ==
  update(servo, ticks_ms(clock + in.dt), in.ent, in.exit, in.btn, in.full)

\* history: the time of the first of the consecutive WaitClear dwell checks
\* that read both sensors clear, -1 if the latest did not (or none ran)
clear_run_after(in) ==
  IF servo.state = STATE_WAIT_CLEAR
     /\ after(in).state = STATE_WAIT_CLEAR
     /\ clear(in)
  THEN IF clear_run = -1 THEN clock + in.dt ELSE clear_run
  ELSE -1

\* history: a dwell check read a sensor non-clear while the timer was running
interrupted_after(in) ==
  /\ servo.state = STATE_WAIT_CLEAR
  /\ after(in).state = STATE_WAIT_CLEAR
  /\ interrupted \/ (~clear(in) /\ clear_run # -1)

\* one call of ServoGate.update()
Update ==
  \E in \in GateCalls(servo) :
    /\ clock + in.dt <= MaxTime
    /\ clock' = clock + in.dt
    /\ servo' = after(in)
    /\ clear_run' = clear_run_after(in)
    /\ interrupted' = interrupted_after(in)
    /\ op' = "update"
    /\ UNCHANGED <<parking, far_run, far_reset, near_run, near_reset, loop, ran,
                 ultrasonic>>

RequestOpen ==
  /\ servo.servo_angle \in RequestAngles
  /\ servo' = request_open(servo)
  /\ op' = "request_open"
  /\ UNCHANGED <<clock, clear_run, interrupted, parking, far_run, far_reset,
               near_run, near_reset, loop, ran,
                 ultrasonic>>

RequestClose ==
  /\ servo.servo_angle \in RequestAngles
  /\ servo' = request_close(servo)
  /\ op' = "request_close"
  /\ UNCHANGED <<clock, clear_run, interrupted, parking, far_run, far_reset,
               near_run, near_reset, loop, ran,
                 ultrasonic>>

Next == Update \/ RequestOpen \/ RequestClose

Spec == Init /\ [][Next]_vars

\* a direct call of ServoGate.set_servo()
SetServo ==
  \E a \in ServoAngles :
    /\ servo' = set_servo(servo, a)
    /\ op' = "set_servo"
    /\ UNCHANGED <<clock, clear_run, interrupted, parking, far_run, far_reset,
                   near_run, near_reset, loop, ran,
                 ultrasonic>>

\* the gate driven by set_servo() alone
SpecServo == Init /\ [][SetServo]_vars

(***************************************************************************)
(* Properties of the gate.  A property of update() is stated over every    *)
(* call that can be made in a reachable state: in ranges over the inputs   *)
(* of the call and after(in) is the gate when the call returns.            *)
(***************************************************************************)

\* C1: an update() that leaves the gate in Closing, whether it entered
\* Closing in that call (which happens only from WaitClear or ManualOpen)
\* or was already closing, read both presence sensors clear.
C1_ClosingOnlyWhenClear ==
  \A in \in GateCalls(servo) :
    after(in).state = STATE_CLOSING =>
      /\ clear(in)
      /\ servo.state \in {STATE_WAIT_CLEAR, STATE_MANUAL_OPEN, STATE_CLOSING}

\* a WaitClear state whose dwell has run, and from which an update() with
\* both sensors clear and no remote request enters Closing
C1_Witness ==
  /\ servo.state = STATE_WAIT_CLEAR
  /\ servo.clear_start # 0
  /\ ~servo.remote_close_requested
  /\ \E in \in GateCalls(servo) :
       clear(in) /\ after(in).state = STATE_CLOSING

\* C2: an update() that begins in Idle or Green with the exit sensor
\* detecting ends in Opening with target fully open, lot full or not.
C2_ExitOpensAtOnce ==
  \A in \in GateCalls(servo) :
    (servo.state \in {STATE_IDLE, STATE_GREEN} /\ in.exit = 0) =>
      /\ after(in).state = STATE_OPENING
      /\ after(in).target_angle = SERVO_UP

\* C3: an update() that begins in Idle with the lot full never ends in
\* Green; without exit detection and without a pending remote open the gate
\* stays Idle and closed.
C3_FullLotBlocksEntrance ==
  \A in \in GateCalls(servo) :
    (servo.state = STATE_IDLE /\ in.full) =>
      /\ after(in).state # STATE_GREEN
      /\ (in.exit = 1 /\ ~servo.remote_open_requested) =>
           /\ after(in).state = STATE_IDLE
           /\ after(in).servo_angle = SERVO_DOWN
           /\ after(in).target_angle = SERVO_DOWN

\* an Idle gate, reached by an update(), on which a further update() with
\* the lot full and a vehicle at the entrance leaves the gate Idle
C3_Witness ==
  /\ op = "update"
  /\ servo.state = STATE_IDLE
  /\ \E in \in GateCalls(servo) :
       in.full /\ in.ent = 0 /\ in.exit = 1 /\ after(in).state = STATE_IDLE

\* C4: an update() that begins in Closing with either sensor detecting ends
\* in Opening with target fully open, at any angle, and does not lower the
\* angle.
C4_ClosingReverses ==
  \A in \in GateCalls(servo) :
    (servo.state = STATE_CLOSING /\ ~clear(in)) =>
      /\ after(in).state = STATE_OPENING
      /\ after(in).target_angle = SERVO_UP
      /\ after(in).servo_angle >= servo.servo_angle

\* a gate half way down, one step interval after its last step, that an
\* update() with the exit sensor detecting turns back
C4_Witness ==
  /\ servo.state = STATE_CLOSING
  /\ servo.servo_angle < SERVO_UP
  /\ servo.servo_angle > SERVO_DOWN
  /\ \E in \in GateCalls(servo) :
       /\ in.exit = 0 /\ in.ent = 1
       /\ ticks_diff(ticks_ms(clock + in.dt), servo.last_servo_move)
            >= SERVO_INTERVAL
       /\ after(in).state = STATE_OPENING

\* C5: with request_open() called on an Idle gate, the next update() ends
\* in Opening, target fully open, green and red off, whatever the inputs.
C5_RemoteOpenFromIdle ==
  \A in \in GateCalls(servo) :
    (servo.state = STATE_IDLE /\ servo.remote_open_requested) =>
      /\ after(in).state = STATE_OPENING
      /\ after(in).target_angle = SERVO_UP
      /\ ~after(in).traffic_light.green
      /\ ~after(in).traffic_light.red

\* request_open() has just been called on an Idle gate showing red
C5_Witness ==
  /\ op = "request_open"
  /\ servo.state = STATE_IDLE
  /\ servo.traffic_light.red
  /\ \E in \in GateCalls(servo) : after(in).state = STATE_OPENING

\* C6 as stated: the gate goes from WaitClear to Closing only in an update()
\* that completes a dwell of SAFE_DELAY of uninterrupted clear readings.
C6_ClosingOnlyAfterDwell ==
  \A in \in GateCalls(servo) :
    (servo.state = STATE_WAIT_CLEAR /\ after(in).state = STATE_CLOSING) =>
      /\ clear(in)
      /\ clear_run # -1
      /\ clock + in.dt - clear_run >= SAFE_DELAY

\* C6 amended: without a pending remote close the gate goes from WaitClear
\* to Closing only in an update() that reads both sensors clear, with every
\* dwell check since the timer was started having read them clear and at
\* least SAFE_DELAY elapsed since that start; an update() that stays in
\* WaitClear and reads a sensor non-clear leaves the timer unset, and the
\* timer is set exactly while such a run of clear checks lasts.
C6_DwellNotCumulative ==
  /\ \A in \in GateCalls(servo) :
       /\ (servo.state = STATE_WAIT_CLEAR /\ ~servo.remote_close_requested
              /\ after(in).state = STATE_CLOSING) =>
            /\ clear(in)
            /\ clear_run # -1
            /\ clock + in.dt - clear_run >= SAFE_DELAY
       /\ (servo.state = STATE_WAIT_CLEAR /\ ~clear(in)
              /\ after(in).state = STATE_WAIT_CLEAR) =>
            after(in).clear_start = 0
  /\ servo.state = STATE_WAIT_CLEAR =>
       servo.clear_start = (IF clear_run = -1 THEN 0 ELSE clear_run)

\* a dwell was interrupted and restarted, and the restarted dwell completes
C6_Witness ==
  /\ servo.state = STATE_WAIT_CLEAR
  /\ ~servo.remote_close_requested
  /\ interrupted
  /\ clear_run # -1
  /\ \E in \in GateCalls(servo) : after(in).state = STATE_CLOSING

\* C7: in ManualOpen the gate is fully open and every update() keeps it so,
\* except one that consumes a remote close with both sensors clear, which
\* starts Closing; the close request is consumed by the update() in either
\* case, so a denied request is not retried.
C7_ManualOpenHolds ==
  servo.state = STATE_MANUAL_OPEN =>
    /\ servo.servo_angle = SERVO_UP
    /\ \A in \in GateCalls(servo) :
         /\ ~after(in).remote_close_requested
         /\ after(in).state \in {STATE_MANUAL_OPEN, STATE_CLOSING}
         /\ after(in).servo_angle = SERVO_UP
         /\ after(in).state = STATE_CLOSING <=>
              (servo.remote_close_requested /\ clear(in))

\* a close request is pending in ManualOpen and an update() that reads the
\* entrance sensor detecting leaves the gate in ManualOpen
C7_Witness ==
  /\ servo.state = STATE_MANUAL_OPEN
  /\ servo.remote_close_requested
  /\ \E in \in GateCalls(servo) :
       in.ent = 0 /\ after(in).state = STATE_MANUAL_OPEN

\* C8: when update() returns, the pending-open flag and the pending-close
\* flag are both false.
C8_BothFlagsConsumed ==
  \A in \in GateCalls(servo) :
    /\ ~after(in).remote_open_requested
    /\ ~after(in).remote_close_requested

(***************************************************************************)
(* Specifications of the occupancy check and of the gas check              *)
(***************************************************************************)
InitPark ==
  /\ clock = BootTime
  /\ servo = ServoGateInit
  /\ clear_run = -1
  /\ interrupted = FALSE
  /\ parking \in {SmartParkingInit(MQTTHandlerInit), SmartParkingInit(MQTTNone)}
  /\ far_run = -1
  /\ far_reset = FALSE
  /\ near_run = -1
  /\ near_reset = FALSE
  /\ loop = LoopInit
  /\ ran = <<>>
  /\ ultrasonic = UltrasonicInit
  /\ op = "init"

\* the inputs of one check_parking() call: elapsed time, the burst of echo
\* readings, whether a publication is delivered
ParkCalls == [dt : ParkDts, burst : Bursts, delivered : BOOLEAN]

\* the filtered distance the call computes
distance(in) == get_filtered_distance(parking, in.burst)

far(in) == distance(in) > cm(parking.config.ULTRASONIC_MAX_DISTANCE) + cm(2)

\* the SmartParking object after a check_parking() call with inputs in
park_after(in) ==
  check_parking(parking, ticks_ms(clock + in.dt), in.burst, in.delivered)

\* history: the time of the first of the consecutive measuring checks of an
\* Occupied spot that found the distance beyond the margin, -1 if the latest
\* did not (or none ran); a check skipped by the gas alarm measures nothing
far_run_after(in) ==
  IF parking.gas_alarm
  THEN far_run
  ELSE IF parking.car_parked /\ park_after(in).car_parked /\ far(in)
  THEN IF far_run = -1 THEN clock + in.dt ELSE far_run
  ELSE -1

\* history: a check found the distance within the margin while the free
\* timer was running
far_reset_after(in) ==
  IF parking.gas_alarm
  THEN far_reset
  ELSE /\ parking.car_parked
       /\ park_after(in).car_parked
       /\ far_reset \/ (~far(in) /\ far_run # -1)

near(in) == 0 < distance(in) /\ distance(in) <= limit(parking)

\* history: the time of the first of the consecutive measuring checks of a
\* Free spot that found the distance inside the stop limit, -1 if the latest
\* did not (or none ran)
near_run_after(in) ==
  IF parking.gas_alarm
  THEN near_run
  ELSE IF ~parking.car_parked /\ ~park_after(in).car_parked /\ near(in)
  THEN IF near_run = -1 THEN clock + in.dt ELSE near_run
  ELSE -1

\* history: a check of the Free spot found the distance outside the stop
\* limit while the occupied timer was running
near_reset_after(in) ==
  IF parking.gas_alarm
  THEN near_reset
  ELSE /\ ~parking.car_parked
       /\ ~park_after(in).car_parked
       /\ near_reset \/ (~near(in) /\ near_run # -1)

\* one call of SmartParking.check_parking()
CheckParking ==
  \E in \in ParkCalls :
    /\ clock + in.dt <= MaxParkTime
    /\ clock' = clock + in.dt
    /\ parking' = park_after(in)
    /\ far_run' = far_run_after(in)
    /\ far_reset' = far_reset_after(in)
    /\ near_run' = near_run_after(in)
    /\ near_reset' = near_reset_after(in)
    /\ op' = "check_parking"
    /\ UNCHANGED <<servo, clear_run, interrupted, loop, ran,
                 ultrasonic>>

\* the levels read_raw() is drawn from: the ends of the ADC range and the
\* levels at and next to the two edges of the hysteresis band
GasReadings(c) ==
  {r \in {0,
          c.MQ2_THRESHOLD - c.MQ2_HYSTERESIS - 1,
          c.MQ2_THRESHOLD - c.MQ2_HYSTERESIS,
          c.MQ2_THRESHOLD,
          c.MQ2_THRESHOLD + 1,
          ADC_MAX} : 0 <= r /\ r <= ADC_MAX}

\* the inputs of one check_gas() call
GasCalls(p) == [dt : {0} \cup ParkDts, raw : GasReadings(p.config)]

\* the SmartParking object after a check_gas() call with inputs in
gas_after(in) == check_gas(parking, ticks_ms(clock + in.dt), in.raw)

\* one call of SmartParking.check_gas()
CheckGas ==
  \E in \in GasCalls(parking) :
    /\ clock + in.dt <= MaxParkTime
    /\ clock' = clock + in.dt
    /\ parking' = gas_after(in)
    /\ op' = "check_gas"
    /\ UNCHANGED <<servo, clear_run, interrupted, far_run, far_reset,
                 near_run, near_reset, loop, ran,
                 ultrasonic>>

\* a message on parking/cfg/<param>
ConfigMessage ==
  \E param \in CfgParams, message \in CfgMessages, delivered \in BOOLEAN :
    /\ parking' = update_config(parking, param, param, message, delivered)
    /\ op' = "config"
    /\ UNCHANGED <<clock, servo, clear_run, interrupted, far_run, far_reset,
                 near_run, near_reset, loop, ran,
                 ultrasonic>>

\* a message on parking/cmd/reset_config
ResetConfig ==
  \E sent \in 0..3 :
    /\ parking' = reset_config(parking, sent)
    /\ op' = "reset_config"
    /\ UNCHANGED <<clock, servo, clear_run, interrupted, far_run, far_reset,
                 near_run, near_reset, loop, ran,
                 ultrasonic>>

NextPark == CheckParking \/ CheckGas

SpecPark == InitPark /\ [][NextPark]_vars

NextGas == CheckGas \/ ConfigMessage \/ ResetConfig

SpecGas == InitPark /\ [][NextGas]_vars

(***************************************************************************)
(* Specification of the main loop, SmartParking.run()                      *)
(***************************************************************************)
\* inputs of the tasks of the loop
LoopBursts ==
  { <<cm(2), cm(2), cm(2), cm(2), cm(2), cm(2), cm(2)>>,
    <<cm(20), cm(20), cm(20), cm(20), cm(20), cm(20), cm(20)>> }

LuxReadings == {[ok |-> TRUE, lux |-> 10], [ok |-> FALSE, lux |-> 0]}

\* the tasks of one iteration in the order run() reaches them
TaskOrder ==
  <<"update", "end_move", "poll", "button", "distance", "gas", "light",
    "display", "telemetry", "buzzer">>

due(l, last, interval) == ticks_diff(l.current_time, last) >= interval

\* variant: the light check runs in every iteration
runs_light_always(l, p, task) ==
  CASE task = "end_move" -> l.was_moving /\ ~l.is_moving
    [] task = "poll" ->
         p.mqtt.present /\ due(l, l.last_mqtt_check, MQTT_CHECK_INTERVAL)
    [] task = "button" -> TRUE
    [] task = "distance" ->
         due(l, l.last_distance_check, DISTANCE_CHECK_INTERVAL)
    [] task = "gas" -> due(l, l.last_gas_check, GAS_CHECK_INTERVAL)
    [] task = "light" -> TRUE
    [] task = "display" -> due(l, l.last_display_update, DISPLAY_INTERVAL)
    [] task = "telemetry" ->
         p.mqtt.present
           /\ due(l, l.last_mqtt_telemetry, p.config.MQTT_TELEMETRY_INTERVAL)
    [] task = "buzzer" -> TRUE

\* the condition under which run() executes a task in an iteration the gate
\* does not report moving in
runs(l, p, task) ==
  CASE task = "end_move" -> l.was_moving /\ ~l.is_moving
    [] task = "poll" ->
         p.mqtt.present /\ due(l, l.last_mqtt_check, MQTT_CHECK_INTERVAL)
    [] task = "button" -> TRUE
    [] task = "distance" ->
         due(l, l.last_distance_check, DISTANCE_CHECK_INTERVAL)
    [] task = "gas" -> due(l, l.last_gas_check, GAS_CHECK_INTERVAL)
    [] task = "light" -> due(l, l.last_light_check, LIGHT_CHECK_INTERVAL)
    [] task = "display" -> due(l, l.last_display_update, DISPLAY_INTERVAL)
    [] task = "telemetry" ->
         p.mqtt.present
           /\ due(l, l.last_mqtt_telemetry, p.config.MQTT_TELEMETRY_INTERVAL)
    [] task = "buzzer" -> TRUE

\* the first task after position k of TaskOrder that runs; the next
\* iteration when none is left
RECURSIVE next_task(_, _, _)
next_task(l, p, k) ==
  IF k >= Len(TaskOrder)
  THEN "update"
  ELSE IF runs(l, p, TaskOrder[k + 1])
  THEN TaskOrder[k + 1]
  ELSE next_task(l, p, k + 1)

\* variant: the loop goes on to the other tasks while the gate moves
after_update_nocontinue(l, p) == next_task(l, p, 1)

\* if is_moving: ... continue
after_update(l, p) == IF l.is_moving THEN "update" ELSE next_task(l, p, 1)

\* the start of an iteration: the timestamp, servo.update(), is_moving().
\* The time elapsed since the timestamp of the previous iteration is the
\* step interval while the gate moves (the loop spins with 1 ms sleeps and
\* update() acts once per step interval), else the time the tasks and the
\* closing sleep take.  The levels of the entrance sensor, the exit sensor
\* and the gate button (all active low): nothing, a car at the entrance, a
\* car at the exit, the button pressed.
LoopUpdate ==
  /\ loop.pc = "update"
  /\ \E dt \in IF loop.is_moving THEN {SERVO_INTERVAL} ELSE {500},
        pins \in {[ent |-> 1, exit |-> 1, btn |-> 1],
                  [ent |-> 0, exit |-> 1, btn |-> 1],
                  [ent |-> 1, exit |-> 0, btn |-> 1],
                  [ent |-> 1, exit |-> 1, btn |-> 0]} :
       LET in == [dt |-> dt, ent |-> pins.ent, exit |-> pins.exit,
                  btn |-> pins.btn, full |-> parking.car_parked]
           l == [loop EXCEPT !.current_time = ticks_ms(clock + dt),
                             !.is_moving = is_moving(after(in)),
                             !.was_moving = is_moving(after(in)) \/ @]
       IN /\ clock + dt <= MaxLoopTime
          /\ clock' = clock + dt
          /\ servo' = after(in)
          /\ clear_run' = clear_run_after(in)
          /\ interrupted' = interrupted_after(in)
          /\ loop' = [l EXCEPT !.pc = after_update(l, parking)]
  /\ ran' = <<"update">>
  /\ op' = "update"
  /\ UNCHANGED <<parking, far_run, far_reset, near_run, near_reset,
                 ultrasonic>>

\* if was_moving and not is_moving: check_brightness, publish_telemetry,
\* update_display
EndOfMovement ==
  /\ loop.pc = "end_move"
  /\ \E reading \in LuxReadings, raw \in GasReadings(parking.config),
        sent \in {0, 6} :
       parking' = update_display(
                    publish_telemetry(check_brightness(parking, reading),
                                      servo, reading, raw, sent),
                    servo, reading)
  /\ loop' = [[loop EXCEPT !.was_moving = FALSE]
                EXCEPT !.pc = next_task(loop, parking, 2)]
  /\ ran' = ran \o <<"light", "telemetry", "display">>
  /\ op' = "end_move"
  /\ UNCHANGED <<clock, servo, clear_run, interrupted, far_run, far_reset,
                 near_run, near_reset,
                 ultrasonic>>

\* mqtt.check_messages() and the callback on a message it delivers; a poll
\* of the broker finds nothing, a failure, or one command
PollCommands ==
  /\ loop.pc = "poll"
  /\ \E polled \in
         {[kind |-> "none", topic |-> <<>>, message |-> ""],
          [kind |-> "error", topic |-> <<>>, message |-> ""],
          [kind |-> "message", topic |-> <<"parking", "cmd", "open_gate">>,
           message |-> "1"],
          [kind |-> "message", topic |-> <<"parking", "cmd", "close_gate">>,
           message |-> "1"]},
        sent \in {0, 3} :
       LET m == check_messages(parking.mqtt, polled.kind)
           p == [parking EXCEPT !.mqtt = m]
           r == IF parking.mqtt.connected /\ polled.kind = "message"
                THEN on_mqtt_message(p, servo, polled.topic, polled.message,
                                     sent)
                ELSE [parking |-> p, servo |-> servo]
       IN /\ parking' = r.parking
          /\ servo' = r.servo
  /\ loop' = [[loop EXCEPT !.last_mqtt_check = loop.current_time]
                EXCEPT !.pc = next_task(loop, parking, 3)]
  /\ ran' = Append(ran, "poll")
  /\ op' = "poll"
  /\ UNCHANGED <<clock, clear_run, interrupted, far_run, far_reset,
                 near_run, near_reset,
                 ultrasonic>>

\* master_button.get_press_type(); a long press restarts the controller
CheckResetButton ==
  /\ loop.pc = "button"
  /\ \E current \in PinLevels :
       LET r == get_press_type(parking.master_button, ticks_ms(clock),
                               current, 100, LONG_PRESS)
       IN IF r.press = "long_press"
          THEN InitPark'
          ELSE /\ parking' = [parking EXCEPT !.master_button = r.button]
               /\ loop' = [loop EXCEPT !.pc = next_task(loop, parking, 4)]
               /\ ran' = Append(ran, "button")
               /\ op' = "button"
               /\ UNCHANGED <<clock, servo, clear_run, interrupted, far_run,
                              far_reset, near_run, near_reset,
                 ultrasonic>>

\* check_parking() when its deadline has passed
DistanceTask ==
  /\ loop.pc = "distance"
  /\ \E burst \in LoopBursts, delivered \in BOOLEAN :
       LET in == [dt |-> 0, burst |-> burst, delivered |-> delivered]
       IN /\ parking' = park_after(in)
          /\ far_run' = far_run_after(in)
          /\ far_reset' = far_reset_after(in)
          /\ near_run' = near_run_after(in)
          /\ near_reset' = near_reset_after(in)
  /\ loop' = [[loop EXCEPT !.last_distance_check = loop.current_time]
                EXCEPT !.pc = next_task(loop, parking, 5)]
  /\ ran' = Append(ran, "distance")
  /\ op' = "check_parking"
  /\ UNCHANGED <<clock, servo, clear_run, interrupted,
                 ultrasonic>>

\* check_gas() when its deadline has passed
GasTask ==
  /\ loop.pc = "gas"
  /\ \E raw \in GasReadings(parking.config) :
       parking' = gas_after([dt |-> 0, raw |-> raw])
  /\ loop' = [[loop EXCEPT !.last_gas_check = loop.current_time]
                EXCEPT !.pc = next_task(loop, parking, 6)]
  /\ ran' = Append(ran, "gas")
  /\ op' = "check_gas"
  /\ UNCHANGED <<clock, servo, clear_run, interrupted, far_run, far_reset,
                 near_run, near_reset,
                 ultrasonic>>

\* check_brightness() when its deadline has passed
LightTask ==
  /\ loop.pc = "light"
  /\ \E reading \in LuxReadings :
       parking' = check_brightness(parking, reading)
  /\ loop' = [[loop EXCEPT !.last_light_check = loop.current_time]
                EXCEPT !.pc = next_task(loop, parking, 7)]
  /\ ran' = Append(ran, "light")
  /\ op' = "check_brightness"
  /\ UNCHANGED <<clock, servo, clear_run, interrupted, far_run, far_reset,
                 near_run, near_reset,
                 ultrasonic>>

\* update_display() when its deadline has passed
DisplayTask ==
  /\ loop.pc = "display"
  /\ \E reading \in LuxReadings :
       parking' = update_display(parking, servo, reading)
  /\ loop' = [[loop EXCEPT !.last_display_update = loop.current_time]
                EXCEPT !.pc = next_task(loop, parking, 8)]
  /\ ran' = Append(ran, "display")
  /\ op' = "update_display"
  /\ UNCHANGED <<clock, servo, clear_run, interrupted, far_run, far_reset,
                 near_run, near_reset,
                 ultrasonic>>

\* publish_telemetry() when its deadline has passed
TelemetryTask ==
  /\ loop.pc = "telemetry"
  /\ \E reading \in LuxReadings, raw \in GasReadings(parking.config),
        sent \in {0, 6} :
       parking' = publish_telemetry(parking, servo, reading, raw, sent)
  /\ loop' = [[loop EXCEPT !.last_mqtt_telemetry = loop.current_time]
                EXCEPT !.pc = next_task(loop, parking, 9)]
  /\ ran' = Append(ran, "telemetry")
  /\ op' = "publish_telemetry"
  /\ UNCHANGED <<clock, servo, clear_run, interrupted, far_run, far_reset,
                 near_run, near_reset,
                 ultrasonic>>

\* buzzer.update() and the sleep that ends the iteration
BuzzerTask ==
  /\ loop.pc = "buzzer"
  /\ parking' = [parking EXCEPT
                   !.buzzer = buzzer_update(parking.buzzer, ticks_ms(clock))]
  /\ loop' = [loop EXCEPT !.pc = "update"]
  /\ ran' = Append(ran, "buzzer")
  /\ op' = "buzzer_update"
  /\ UNCHANGED <<clock, servo, clear_run, interrupted, far_run, far_reset,
                 near_run, near_reset,
                 ultrasonic>>

NextLoop ==
  \/ LoopUpdate
  \/ EndOfMovement
  \/ PollCommands
  \/ CheckResetButton
  \/ DistanceTask
  \/ GasTask
  \/ LightTask
  \/ DisplayTask
  \/ TelemetryTask
  \/ BuzzerTask

SpecLoop == InitPark /\ [][NextLoop]_vars

(***************************************************************************)
(* Specification of the Buzzer: its methods called in any order            *)
(***************************************************************************)
\* time elapsed between two Buzzer.update() calls
BuzzerDts == {0, 100}

\* the tones of the parking assistance (check_parking)
Tones == {800, 1500, 2000}

BuzzerCall(name, b) ==
  /\ parking' = [parking EXCEPT !.buzzer = b]
  /\ op' = name
  /\ UNCHANGED <<servo, clear_run, interrupted, far_run, far_reset, near_run,
                 near_reset, loop, ran,
                 ultrasonic>>

SetFrequency ==
  /\ \E freq \in Tones :
       BuzzerCall("set_frequency", set_frequency(parking.buzzer, freq))
  /\ UNCHANGED clock

StartAlarm ==
  /\ \E a \in {[freq |-> 2000, interval |-> 200],
             [freq |-> 2500, interval |-> 300]} :
       BuzzerCall("start_alarm",
                  start_alarm(parking.buzzer, a.freq, a.interval,
                              ticks_ms(clock)))
  /\ UNCHANGED clock

StopParkingAssist ==
  /\ BuzzerCall("stop_parking_assist", stop_parking_assist(parking.buzzer))
  /\ UNCHANGED clock

StopAlarm ==
  /\ BuzzerCall("stop_alarm", stop_alarm(parking.buzzer))
  /\ UNCHANGED clock

Stop ==
  /\ BuzzerCall("stop", stop(parking.buzzer))
  /\ UNCHANGED clock

BuzzerUpdate ==
  \E dt \in BuzzerDts :
    /\ clock + dt <= MaxBuzzerTime
    /\ clock' = clock + dt
    /\ BuzzerCall("buzzer_update",
                  buzzer_update(parking.buzzer, ticks_ms(clock + dt)))

NextBuzzer ==
  \/ SetFrequency
  \/ StartAlarm
  \/ StopParkingAssist
  \/ StopAlarm
  \/ Stop
  \/ BuzzerUpdate

SpecBuzzer == Init /\ [][NextBuzzer]_vars

(***************************************************************************)
(* Specification of the inbound commands: on_mqtt_message() called with    *)
(* any command, and the light check                                        *)
(***************************************************************************)
\* payloads of a threshold update that float() rejects
BadNumbers == {"abc", ""}

\* payloads of a light-mode command that name no mode, upper-cased and
\* stripped
BadModes == {"dim", ""}

\* the commands the broker delivers
Commands ==
  {[topic |-> <<"parking", "cmd", "open_gate">>, message |-> "1"],
   [topic |-> <<"parking", "cmd", "close_gate">>, message |-> "1"],
   [topic |-> <<"parking", "cmd", "reset_config">>, message |-> "1"],
   [topic |-> <<"parking", "cfg", "mq2_threshold", "confirm">>,
    message |-> "200"],
   [topic |-> <<"parking", "state", "spot">>, message |-> "LIBERO"]}
    \cup [topic : {<<"parking", "cmd", "parking_light_mode">>},
          message : {"auto", " on ", "off"} \cup BadModes]
    \cup [topic : {<<"parking", "cfg", "mq2_threshold">>,
                   <<"parking", "cfg", "mq2_hyst">>},
          message : {"200"} \cup BadNumbers]

\* one call of on_mqtt_message()
Command ==
  /\ \E c \in Commands, sent \in {0, 1, 3} :
       LET r == on_mqtt_message(parking, servo, c.topic, c.message, sent)
       IN /\ parking' = r.parking
          /\ servo' = r.servo
  /\ op' = "on_mqtt_message"
  /\ UNCHANGED <<clock, clear_run, interrupted, far_run, far_reset, near_run,
                 near_reset, loop, ran,
                 ultrasonic>>

\* one call of check_brightness()
CheckBrightness ==
  /\ \E reading \in LuxReadings :
       parking' = check_brightness(parking, reading)
  /\ op' = "check_brightness"
  /\ UNCHANGED <<clock, servo, clear_run, interrupted, far_run, far_reset,
                 near_run, near_reset, loop, ran,
                 ultrasonic>>

NextCmd ==
  \/ Command
  \/ CheckBrightness

SpecCmd == InitPark /\ [][NextCmd]_vars

(***************************************************************************)
(* Specification of UltrasonicSensor.distance_cm()                         *)
(***************************************************************************)
\* a step of a distance_cm() call; one round of a wait loop takes 1000 or
\* 3000 microseconds
UltrasonicCall(name, u) ==
  /\ ultrasonic' = u
  /\ op' = name
  /\ UNCHANGED <<clock, servo, clear_run, interrupted, parking, far_run,
                 far_reset, near_run, near_reset, loop, ran>>

\* a distance_cm() call starts
DistanceCm ==
  /\ ultrasonic.pc \in {"idle", "returned"}
  /\ UltrasonicCall("distance_cm", trigger(ultrasonic))

WaitEchoHigh ==
  /\ ultrasonic.pc = "wait_high"
  /\ \E echo \in PinLevels, dt \in {1000, 3000} :
       UltrasonicCall("wait_high", wait_echo_high(ultrasonic, echo, dt))

WaitEchoLow ==
  /\ ultrasonic.pc = "wait_low"
  /\ \E echo \in PinLevels, dt \in {1000, 3000} :
       UltrasonicCall("wait_low", wait_echo_low(ultrasonic, echo, dt))

NextUltrasonic ==
  \/ DistanceCm
  \/ WaitEchoHigh
  \/ WaitEchoLow

\* the processor keeps executing the wait loop it is in
SpecUltrasonic ==
  /\ Init
  /\ [][NextUltrasonic]_vars
  /\ WF_vars(WaitEchoHigh)
  /\ WF_vars(WaitEchoLow)

(***************************************************************************)
(* Properties of the gas check and of the occupancy check, stated like     *)
(* those of the gate over every call that can be made in a reachable state *)
(***************************************************************************)

\* C9: with a hysteresis that is not negative, a check_gas() turns the alarm
\* on only on a level above the threshold, turns it off only on a level
\* below threshold minus hysteresis, and on a level inside the band between
\* the two (ends included) changes nothing: not the alarm, not the buzzer,
\* not the alarm led.
C9_GasHysteresis ==
  parking.config.MQ2_HYSTERESIS >= 0 =>
    \A in \in GasCalls(parking) :
      LET T == parking.config.MQ2_THRESHOLD
          H == parking.config.MQ2_HYSTERESIS
      IN /\ (~parking.gas_alarm /\ gas_after(in).gas_alarm) => in.raw > T
         /\ (parking.gas_alarm /\ ~gas_after(in).gas_alarm) => in.raw < T - H
         /\ (T - H <= in.raw /\ in.raw <= T) => gas_after(in) = parking

\* the alarm was raised by a check, the band is not empty, and a further
\* check that reads the lower edge of the band leaves the alarm on
C9_Witness ==
  /\ op = "check_gas"
  /\ parking.gas_alarm
  /\ parking.config.MQ2_HYSTERESIS > 0
  /\ \E in \in GasCalls(parking) :
       /\ in.raw = parking.config.MQ2_THRESHOLD - parking.config.MQ2_HYSTERESIS
       /\ gas_after(in).gas_alarm

\* C10: a check_parking() turns an Occupied spot Free only when it finds
\* the filtered distance above MAX + 2 cm, as every measuring check has
\* since the free timer was started, and at least the free confirmation time
\* after that start; a check of an Occupied spot that finds the distance at
\* or below MAX + 2 cm leaves the timer unset and the spot Occupied; the
\* timer is set exactly while such a run of far checks lasts.
C10_FreeOnlyAfterDwell ==
  /\ \A in \in ParkCalls :
       /\ (parking.car_parked /\ ~park_after(in).car_parked) =>
            /\ far(in)
            /\ far_run # -1
            /\ clock + in.dt - far_run >= ULTRASONIC_FREE_CONFIRM
       /\ (parking.car_parked /\ ~parking.gas_alarm /\ ~far(in)) =>
            /\ park_after(in).free_timer = 0
            /\ park_after(in).car_parked
  /\ parking.car_parked =>
       parking.free_timer = (IF far_run = -1 THEN 0 ELSE far_run)

\* a free confirmation was interrupted and restarted, and a check completes
\* the restarted confirmation
C10_Witness ==
  /\ parking.car_parked
  /\ ~parking.gas_alarm
  /\ far_reset
  /\ far_run # -1
  /\ \E in \in ParkCalls : ~park_after(in).car_parked
\* the SmartParking object after one check_parking() per distance of ds,
\* each on a burst of seven equal echo readings, the first one a check
\* period after time t and one per period after it
RECURSIVE run_checks(_, _, _)
run_checks(p, t, ds) ==
  IF ds = <<>>
  THEN p
  ELSE run_checks(
         check_parking(p, ticks_ms(t + DISTANCE_CHECK_INTERVAL),
                       [i \in 1..7 |-> cm(Head(ds))], TRUE),
         t + DISTANCE_CHECK_INTERVAL, Tail(ds))

\* the distances of the scenario: three above the stop limit, then 6 cm for
\* as long as the confirmation lasts
ScenarioDistances ==
  <<10, 10, 9>> \o [i \in 1..16 |-> 6]

\* the system at start-up with the stop limit of the scenario, 7 cm
ScenarioStart ==
  [parking EXCEPT !.config.ULTRASONIC_MIN_DISTANCE = 7]

\* C11: a check_parking() turns a Free spot Occupied only when the occupied
\* timer was started at least the occupied confirmation time before by the
\* first of an unbroken run of measuring checks that all found the distance
\* inside the (widened) stop limit; the timer is set exactly while such a
\* run lasts.  In the scenario with stop limit 7 cm, a check every 200 ms
\* and distances 10, 10, 9, then 6 cm, the spot is not Occupied after any of
\* the first 15 checks, nor after any check before the one 3000 ms after the
\* first 6 cm sample, and it is Occupied after that one.
C11_OccupiedOnlyAfterDwell ==
  /\ \A in \in ParkCalls :
       (~parking.car_parked /\ park_after(in).car_parked) =>
         /\ near(in)
         /\ near_run # -1
         /\ clock + in.dt - near_run >= parking.config.ULTRASONIC_OCCUPIED_CONFIRM
  /\ ~parking.car_parked =>
       parking.occupied_timer = (IF near_run = -1 THEN 0 ELSE near_run)
  /\ op = "init" =>
       /\ \A k \in 1..18 :
            ~run_checks(ScenarioStart, clock,
                        SubSeq(ScenarioDistances, 1, k)).car_parked
       /\ run_checks(ScenarioStart, clock, ScenarioDistances).car_parked

\* an occupied confirmation was interrupted and restarted, and a check
\* completes the restarted confirmation
C11_Witness ==
  /\ ~parking.car_parked
  /\ ~parking.gas_alarm
  /\ near_reset
  /\ near_run # -1
  /\ \E in \in ParkCalls : park_after(in).car_parked
\* C12: for every logical angle a in 0..180, a second set_servo(a) sends the
\* pulse width the first one sent and leaves the gate as the first one left
\* it; the first one stores a and touches nothing but the angle and the
\* pulse width.
C12_SetServoIdempotent ==
  \A a \in ServoAngles :
    LET once == set_servo(servo, a)
        twice == set_servo(once, a)
    IN /\ twice.duty = once.duty
       /\ twice = once
       /\ once.servo_angle = a
       /\ [once EXCEPT !.servo_angle = servo.servo_angle,
                       !.duty = servo.duty] = servo

\* set_servo() has put the arm beyond the open position, where the physical
\* angle is clamped, and a repeated call changes nothing
C12_Witness ==
  /\ op = "set_servo"
  /\ servo.servo_angle > SERVO_UP
  /\ servo.duty = servo_duty(SERVO_UP)
  /\ set_servo(servo, servo.servo_angle) = servo

(***************************************************************************)
(* Properties of the main loop, checked under SpecLoop                     *)
(***************************************************************************)
\* C13: every iteration of the main loop calls update() exactly once and
\* before any other task, and in an iteration where the gate then reports
\* moving (Opening or Closing with the angle off the target) no other task
\* runs: the iteration ends after update() and the next one starts.
C13_UpdateFirstMovingSkips ==
  /\ ran # <<>> =>
       /\ ran[1] = "update"
       /\ \A i \in 2..Len(ran) : ran[i] # "update"
  /\ loop.pc # "update" => ran # <<>>
  /\ (op = "update" /\ is_moving(servo)) =>
       /\ servo.state \in {STATE_OPENING, STATE_CLOSING}
       /\ servo.servo_angle # servo.target_angle
       /\ loop.is_moving
  /\ loop.is_moving => ran = <<"update">> /\ loop.pc = "update"

\* an iteration with the gate moving in which the command poll, the
\* occupancy check, the gas check, the light check and the display refresh
\* are all due, and none has run
C13_Witness ==
  /\ op = "update"
  /\ is_moving(servo)
  /\ runs([loop EXCEPT !.is_moving = FALSE], parking, "poll")
  /\ runs(loop, parking, "distance")
  /\ runs(loop, parking, "gas")
  /\ runs(loop, parking, "light")
  /\ runs(loop, parking, "display")
  /\ ran = <<"update">>
  /\ loop.pc = "update"


(***************************************************************************)
(* Properties of the occupancy check during a gas alarm, under SpecPark    *)
(***************************************************************************)
\* C14: while the gas alarm flag is true a check_parking() call changes
\* nothing: the occupancy flag, both dwell timers, the stored filtered
\* distance, the assistance flag, the parking LEDs and the buzzer are after
\* the call what they were before it, whatever the sensor reads.
C14_AlarmFreezesParking ==
  parking.gas_alarm =>
    \A in \in ParkCalls :
      /\ park_after(in).car_parked = parking.car_parked
      /\ park_after(in).occupied_timer = parking.occupied_timer
      /\ park_after(in).free_timer = parking.free_timer
      /\ park_after(in).last_distance = parking.last_distance
      /\ park_after(in).parking_assist = parking.parking_assist
      /\ park_after(in).parking_leds = parking.parking_leds
      /\ park_after(in).buzzer = parking.buzzer
      /\ park_after(in) = parking

\* a check has just run under the alarm with an occupancy dwell pending, and
\* a further check would read a distance other than the stored one
C14_Witness ==
  /\ op = "check_parking"
  /\ parking.gas_alarm
  /\ parking.occupied_timer # 0
  /\ \E in \in ParkCalls :
       get_filtered_distance(parking, in.burst) # parking.last_distance


(***************************************************************************)
(* Properties of the gas alarm and the buzzer, checked under SpecLoop      *)
(***************************************************************************)
\* C15: after every gas check the gas alarm flag is true exactly when the
\* alarm indicator is on and exactly when the buzzer is in Alarm mode;
\* entering the alarm switches the buzzer to Alarm mode with 2500 Hz and
\* 300 ms, clearing it returns the buzzer to Off, and while the alarm is
\* active no occupancy check changes the buzzer mode.
C15_AlarmBuzzerAgree ==
  /\ parking.gas_alarm <=> parking.alarm_led
  /\ parking.gas_alarm <=> parking.buzzer.mode = "alarm"
  /\ \A raw \in GasReadings(parking.config) :
       LET a == check_gas(parking, ticks_ms(clock), raw)
       IN /\ a.gas_alarm <=> a.alarm_led
          /\ a.gas_alarm <=> a.buzzer.mode = "alarm"
          /\ (~parking.gas_alarm /\ a.gas_alarm) =>
               /\ a.buzzer.alarm_freq = 2500
               /\ a.buzzer.alarm_interval = 300
          /\ (parking.gas_alarm /\ ~a.gas_alarm) => a.buzzer.mode = "off"
  /\ parking.gas_alarm =>
       \A burst \in LoopBursts, delivered \in BOOLEAN :
         check_parking(parking, ticks_ms(clock), burst, delivered).buzzer.mode
           = parking.buzzer.mode

\* a gas check has just raised the alarm while the buzzer was sounding the
\* 2000 Hz tone of the parking assistance
C15_Witness ==
  /\ op = "check_gas"
  /\ parking.gas_alarm
  /\ parking.alarm_led
  /\ parking.buzzer.mode = "alarm"
  /\ parking.buzzer.alarm_freq = 2500
  /\ parking.buzzer.freq = 2000
  /\ parking.buzzer.duty = 512


C17_SignalMatchesState ==
  \A in \in GateCalls(servo) :
    /\ after(in).state = STATE_IDLE =>
         /\ after(in).traffic_light.red
         /\ ~after(in).traffic_light.yellow
         /\ ~after(in).traffic_light.green
    /\ after(in).state = STATE_GREEN => after(in).traffic_light.green


(***************************************************************************)
(* Properties of the Buzzer, checked under SpecBuzzer                      *)
(***************************************************************************)
silent(b) == b.duty = 0 /\ ~b.active /\ b.mode = "off"

\* C18 as stated: after stop_parking_assist(), stop_alarm() or stop()
\* returns, from any prior buzzer mode, the duty is 0, the active flag is
\* false and the mode is Off.
C18_StopSilences ==
  /\ silent(stop_parking_assist(parking.buzzer))
  /\ silent(stop_alarm(parking.buzzer))
  /\ silent(stop(parking.buzzer))

\* C18 amended: stop() leaves the buzzer silent, inactive and Off from any
\* mode; stop_parking_assist() does so from Parking mode and stop_alarm()
\* from Alarm mode; stop_parking_assist() in a mode other than Parking and
\* stop_alarm() in a mode other than Alarm leave the buzzer as it was.
C18_StopSilencesOwnMode ==
  LET b == parking.buzzer
  IN /\ silent(stop(b))
     /\ b.mode = "parking" => silent(stop_parking_assist(b))
     /\ b.mode = "alarm" => silent(stop_alarm(b))
     /\ b.mode # "parking" => stop_parking_assist(b) = b
     /\ b.mode # "alarm" => stop_alarm(b) = b
     /\ b.mode = "off" => silent(b)

\* an alarm beep is sounding: stop_alarm() and stop() would silence it,
\* stop_parking_assist() would not
C18_Witness ==
  /\ op = "buzzer_update"
  /\ parking.buzzer.mode = "alarm"
  /\ parking.buzzer.duty = 512
  /\ parking.buzzer.active
  /\ silent(stop_alarm(parking.buzzer))
  /\ silent(stop(parking.buzzer))
  /\ stop_parking_assist(parking.buzzer) = parking.buzzer


(***************************************************************************)
(* Properties of the dwell timers and of the filter, under SpecPark        *)
(***************************************************************************)
timers_agree(p) ==
  /\ ~(p.occupied_timer # 0 /\ p.free_timer # 0)
  /\ p.occupied_timer # 0 => ~p.car_parked
  /\ p.free_timer # 0 => p.car_parked

\* C19: after every occupancy check the occupied timer and the free timer
\* are not both non-zero, a non-zero occupied timer implies the spot is
\* Free, a non-zero free timer implies it is Occupied, and a check that
\* flips the occupancy state leaves both timers at zero.
C19_TimersAgreeWithState ==
  /\ timers_agree(parking)
  /\ \A in \in ParkCalls :
       /\ timers_agree(park_after(in))
       /\ park_after(in).car_parked # parking.car_parked =>
            /\ park_after(in).occupied_timer = 0
            /\ park_after(in).free_timer = 0

\* an occupancy check has just left the free timer of an Occupied spot
\* running, and a further check flips the spot to Free with both timers at
\* zero
C19_Witness ==
  /\ op = "check_parking"
  /\ parking.car_parked
  /\ parking.free_timer # 0
  /\ parking.occupied_timer = 0
  /\ \E in \in ParkCalls :
       /\ ~park_after(in).car_parked
       /\ park_after(in).occupied_timer = 0
       /\ park_after(in).free_timer = 0


\* the occupancy logic of check_parking() evaluated with a given distance
occupancy_logic(p, now, d, delivered) ==
  IF ~p.car_parked
  THEN check_parking_free(p, now, d, delivered)
  ELSE check_parking_occupied(p, now, d, delivered)

\* C20: when every sample of a burst is invalid (the timeout value -1, a
\* negative value, or a value outside 0.5 cm .. 300 cm) the filter returns
\* the previous filtered value, which stays stored, and check_parking()
\* evaluates the occupancy logic with that value.
C20_InvalidBurstHoldsDistance ==
  \A burst \in
      { <<cm(-1), cm(-1), cm(-1), cm(-1), cm(-1), cm(-1), cm(-1)>>,
        <<cm(-1), -3, 0, cm(1) \div 2, cm(300), cm(350), cm(-1)>>,
        <<cm(350), cm(350), cm(350), cm(350), cm(350), cm(350), cm(350)>> } :
    /\ get_filtered_distance(parking, burst) = parking.last_distance
    /\ ~parking.gas_alarm =>
         \A dt \in ParkDts, delivered \in BOOLEAN :
           LET c == check_parking(parking, ticks_ms(clock + dt), burst,
                                  delivered)
           IN /\ c.last_distance = parking.last_distance
              /\ c = occupancy_logic(parking, ticks_ms(clock + dt),
                                     parking.last_distance, delivered)

\* a car has been measured inside the stop limit and the occupied timer
\* runs: a check whose burst is all timeouts completes the dwell on the
\* held-over distance
C20_Witness ==
  /\ op = "check_parking"
  /\ ~parking.car_parked
  /\ ~parking.gas_alarm
  /\ parking.occupied_timer # 0
  /\ parking.last_distance # cm(NO_DISTANCE)
  /\ \E in \in ParkCalls :
       /\ valid_readings(in.burst) = <<>>
       /\ park_after(in).car_parked
       /\ park_after(in).last_distance = parking.last_distance


(***************************************************************************)
(* Properties of the MQTT handler, checked under SpecLoop                  *)
(***************************************************************************)
\* C21: after a publish or a poll fails the handler is marked disconnected;
\* while it is, every publish() and check_messages() leaves the handler
\* untouched, the telemetry publication is skipped, and the gate, the
\* occupancy check and the gas check act as with a connected handler (the
\* SmartParking objects they leave differ in nothing but the handler); the
\* handler becomes connected again only through a successful connect(),
\* which only a restart makes.
C21_DisconnectHandled ==
  /\ [](LET but_mqtt(p) == [p EXCEPT !.mqtt = MQTTNone]
            m == parking.mqtt
            now == ticks_ms(clock)
        IN /\ m.connected =>
                /\ \A t \in {"state/spot", "sensors/gas"}, retain \in BOOLEAN :
                     ~publish(m, t, "x", retain, FALSE).connected
                /\ ~check_messages(m, "error").connected
                /\ \A sent \in 0..5 :
                     ~publish_telemetry_data(
                        m, [gate_state |-> get_state(servo), spot_occupied |-> TRUE,
                            distance |-> 0, gas_level |-> 0, gas_alarm |-> FALSE,
                            light |-> 0], sent).connected
           /\ ~m.connected =>
                /\ \A t \in {"state/spot", "sensors/gas"}, retain \in BOOLEAN,
                      delivered \in BOOLEAN :
                     publish(m, t, "x", retain, delivered) = m
                /\ \A polled \in {"none", "message", "error"} :
                     check_messages(m, polled) = m
                /\ \A reading \in LuxReadings, raw \in GasReadings(parking.config),
                      sent \in {0, 6} :
                     publish_telemetry(parking, servo, reading, raw, sent) = parking
                /\ \A burst \in LoopBursts, delivered \in BOOLEAN :
                     /\ check_parking(parking, now, burst, delivered).mqtt = m
                     /\ but_mqtt(check_parking(parking, now, burst, delivered))
                          = but_mqtt(check_parking(
                              [parking EXCEPT !.mqtt.connected = m.present], now,
                              burst, TRUE))
                /\ \A raw \in GasReadings(parking.config) :
                     /\ check_gas(parking, now, raw).mqtt = m
                     /\ but_mqtt(check_gas(parking, now, raw))
                          = but_mqtt(check_gas(
                              [parking EXCEPT !.mqtt.connected = m.present], now,
                              raw)))
  /\ [][(~parking.mqtt.connected /\ parking'.mqtt.connected)
         => op' = "init"]_vars

\* the poll of an iteration has failed and marked the handler disconnected,
\* and the gas check of the same iteration has raised the alarm
C21_Witness ==
  /\ op = "check_gas"
  /\ parking.mqtt.present
  /\ ~parking.mqtt.connected
  /\ parking.gas_alarm
  /\ \E i \in 1..Len(ran) : ran[i] = "poll"
  /\ loop.last_mqtt_check = loop.current_time


(***************************************************************************)
(* Properties of the inbound commands, checked under SpecCmd               *)
(***************************************************************************)
\* C22: a malformed inbound command changes no state: a threshold update
\* whose value is not a number leaves every configuration field unchanged
\* and publishes no acknowledgement, a light-mode command that names none of
\* AUTO, ON and OFF leaves the light mode and the parking light unchanged,
\* and in both cases the request flags of the gate are untouched.
C22_MalformedCommandIgnored ==
  /\ \A param \in CfgParams \cup {"lux_threshold"}, message \in BadNumbers,
        sent \in {0, 1} :
       LET r == on_mqtt_message(parking, servo, <<"parking", "cfg", param>>,
                                message, sent)
       IN /\ r.parking.config = parking.config
          /\ r.parking.mqtt = parking.mqtt
          /\ r.parking = parking
          /\ r.servo = servo
  /\ \A message \in BadModes :
       LET r == on_mqtt_message(parking, servo,
                                <<"parking", "cmd", "parking_light_mode">>,
                                message, 0)
       IN /\ r.parking.config.PARKING_LIGHT_MODE
               = parking.config.PARKING_LIGHT_MODE
          /\ r.parking.parking_light = parking.parking_light
          /\ r.parking = parking
          /\ r.servo = servo

\* commands have set a threshold, switched the light on and requested the
\* gate open, the handler is connected, and a further command is malformed
C22_Witness ==
  /\ op = "on_mqtt_message"
  /\ parking.mqtt.connected
  /\ parking.config.MQ2_THRESHOLD = 200
  /\ parking.config.PARKING_LIGHT_MODE = "ON"
  /\ parking.parking_light.led
  /\ servo.remote_open_requested
  /\ \E c \in Commands :
       /\ c.message \in BadNumbers \cup BadModes
       /\ on_mqtt_message(parking, servo, c.topic, c.message, 1)
            = [parking |-> parking, servo |-> servo]


(***************************************************************************)
(* Properties of distance_cm(), checked under SpecUltrasonic               *)
(***************************************************************************)
\* C23: distance_cm() always returns: each of its two waits on the echo
\* line ends once the timeout of 10 000 us is exceeded, the call then
\* returning -1, whatever the echo line does.  No wait lasts beyond the
\* timeout, a call that gave up on a wait returned -1, and a call in a wait
\* eventually returns.
C23_DistanceCmReturns ==
  /\ [](LET u == ultrasonic
        IN /\ u.pc = "wait_high" => ticks_diff(u.us, u.t0) <= ECHO_TIMEOUT
           /\ u.pc = "wait_low" => ticks_diff(u.us, u.t1) <= ECHO_TIMEOUT
           /\ (u.pc = "returned" /\ u.t1 = 0) =>
                /\ ticks_diff(u.us, u.t0) > ECHO_TIMEOUT
                /\ u.result = cm(-1)
           /\ (u.pc = "returned" /\ u.t1 # 0
                 /\ ticks_diff(u.us, u.t1) > ECHO_TIMEOUT) =>
                u.result = cm(-1))
  /\ (ultrasonic.pc \in {"wait_high", "wait_low"})
       ~> (ultrasonic.pc = "returned")

\* the echo line rose and then stayed high: the second wait has timed out
C23_Witness ==
  /\ ultrasonic.pc = "returned"
  /\ ultrasonic.t1 # 0
  /\ ticks_diff(ultrasonic.us, ultrasonic.t1) > ECHO_TIMEOUT
  /\ ultrasonic.result = cm(-1)


(***************************************************************************)
(* Properties of the Opening state, checked under Spec                     *)
(***************************************************************************)
\* C24: in Opening, every update() in which at least the step interval has
\* elapsed since the last step raises the angle by exactly the step,
\* clamped to the target, and applies it to the servo; the update() in
\* which the angle reaches fully open turns yellow off, unsets the
\* clear-since timer and goes to ManualOpen if the manual flag is set, to
\* WaitClear otherwise.
C24_OpeningSteps ==
  \A in \in GateCalls(servo) :
    (servo.state = STATE_OPENING
       /\ ticks_diff(ticks_ms(clock + in.dt), servo.last_servo_move)
            >= SERVO_INTERVAL) =>
      /\ after(in).servo_angle
           = Min(servo.servo_angle + SERVO_STEP, servo.target_angle)
      /\ after(in).duty = servo_duty(after(in).servo_angle)
      /\ after(in).last_servo_move = ticks_ms(clock + in.dt)
      /\ IF after(in).servo_angle >= SERVO_UP
         THEN /\ ~after(in).traffic_light.yellow
              /\ after(in).clear_start = 0
              /\ after(in).state = IF servo.manual_mode
                                   THEN STATE_MANUAL_OPEN
                                   ELSE STATE_WAIT_CLEAR
         ELSE after(in).state = STATE_OPENING

\* an automatic opening is one step short of fully open with yellow lit,
\* and the step that is due takes the gate to WaitClear
C24_Witness ==
  /\ servo.state = STATE_OPENING
  /\ servo.servo_angle = SERVO_UP - SERVO_STEP
  /\ ~servo.manual_mode
  /\ servo.traffic_light.yellow
  /\ \E in \in GateCalls(servo) :
       /\ after(in).servo_angle = SERVO_UP
       /\ after(in).state = STATE_WAIT_CLEAR
       /\ ~after(in).traffic_light.yellow


(***************************************************************************)
(* Properties of the task deadlines, checked under SpecLoop                *)
(***************************************************************************)
\* the tasks run() gates with a deadline, the time each last ran and its
\* period
Gated == {"poll", "distance", "gas", "light", "display", "telemetry"}

last_run(l, task) ==
  CASE task = "poll" -> l.last_mqtt_check
    [] task = "distance" -> l.last_distance_check
    [] task = "gas" -> l.last_gas_check
    [] task = "light" -> l.last_light_check
    [] task = "display" -> l.last_display_update
    [] task = "telemetry" -> l.last_mqtt_telemetry

\* now - last run >= period, for the timestamp of the current iteration
is_due(task) ==
  loop.current_time - last_run(loop, task) >=
    CASE task = "poll" -> MQTT_CHECK_INTERVAL
      [] task = "distance" -> DISTANCE_CHECK_INTERVAL
      [] task = "gas" -> GAS_CHECK_INTERVAL
      [] task = "light" -> LIGHT_CHECK_INTERVAL
      [] task = "display" -> DISPLAY_INTERVAL
      [] task = "telemetry" -> parking.config.MQTT_TELEMETRY_INTERVAL

\* the tasks are in the fixed order
in_order(tasks) ==
  LET FixedOrder == <<"poll", "button", "distance", "gas", "light",
                      "display", "telemetry", "buzzer">>
      position(task) ==
        CHOOSE i \in 1..Len(FixedOrder) : FixedOrder[i] = task
  IN \A i \in 1..Len(tasks), j \in 1..Len(tasks) :
       i < j => position(tasks[i]) < position(tasks[j])

ran_task(tasks, task) == \E i \in 1..Len(tasks) : tasks[i] = task

\* the current iteration has run to its end with the gate not moving
finished == loop.pc = "update" /\ ran # <<>> /\ ~loop.is_moving

\* the refresh that follows a movement has run in the current iteration
refreshed == Len(ran) >= 4 /\ ran[2] = "light"

\* the tasks of the current iteration after update() and after the refresh
\* that follows a movement
gated_part == IF refreshed THEN SubSeq(ran, 5, Len(ran)) ELSE Tail(ran)

C26_AlarmToggles ==
  \A dt \in BuzzerDts :
    LET b == parking.buzzer
        now == ticks_ms(clock + dt)
        a == buzzer_update(b, now)
    IN IF b.mode = "alarm"
       THEN IF now - b.alarm_timer >= b.alarm_interval
            THEN /\ (a.duty > 0) # (b.duty > 0)
                 /\ a.duty > 0 => a.freq = b.alarm_freq
                 /\ a.alarm_timer = now
                 /\ [a EXCEPT !.duty = b.duty, !.freq = b.freq,
                              !.alarm_timer = b.alarm_timer] = b
            ELSE a = b
       ELSE a = b

\* the gas alarm has just been toggled to its 2500 Hz tone
C26_Witness ==
  /\ op = "buzzer_update"
  /\ parking.buzzer.mode = "alarm"
  /\ parking.buzzer.alarm_freq = 2500
  /\ parking.buzzer.freq = 2500
  /\ parking.buzzer.duty = 512
  /\ parking.buzzer.alarm_timer = ticks_ms(clock)
  /\ clock > BootTime

\* C27: stopping one buzzer mode does not disturb the other:
\* stop_parking_assist() called in Alarm mode leaves the mode, the active
\* flag, the output and the alarm timer unchanged, and stop_alarm() called
\* in Parking mode leaves the parking tone unchanged.
C27_StopsKeepOtherMode ==
  LET b == parking.buzzer
  IN /\ b.mode = "alarm" =>
          /\ stop_parking_assist(b).mode = "alarm"
          /\ stop_parking_assist(b).active = b.active
          /\ stop_parking_assist(b).duty = b.duty
          /\ stop_parking_assist(b).freq = b.freq
          /\ stop_parking_assist(b).alarm_timer = b.alarm_timer
          /\ stop_parking_assist(b) = b
     /\ b.mode = "parking" =>
          /\ stop_alarm(b).mode = "parking"
          /\ stop_alarm(b).active
          /\ stop_alarm(b).duty = 512
          /\ stop_alarm(b).freq = b.freq
          /\ stop_alarm(b) = b

\* stop_alarm() has just been called on a buzzer sounding a parking tone,
\* which still sounds
C27_Witness ==
  /\ op = "stop_alarm"
  /\ parking.buzzer.mode = "parking"
  /\ parking.buzzer.active
  /\ parking.buzzer.duty = 512
  /\ parking.buzzer.freq \in Tones


(***************************************************************************)
(* Properties of the zones of a Free spot, under SpecPark                  *)
(***************************************************************************)
\* check_parking() calls by the distance the filter returns, at and around
\* the thresholds of the zones: inside the stop limit, at it, inside the
\* tolerance and at its end, just beyond it, at half the far threshold and
\* either side of it, half way between the near and the far threshold and
\* either side of it, at the far threshold, just beyond it, an empty bay
ZoneCalls ==
  LET MIN == cm(ULTRASONIC_MIN_DISTANCE)
      MAX == cm(ULTRASONIC_MAX_DISTANCE)
  IN [dt : ParkDts,
      d : { cm(2), MIN, MIN + 1, MIN + cm(1) - 1, MIN + cm(1),
            MIN + cm(1) + 1, MAX \div 2 - 1, MAX \div 2,
            (MIN + MAX) \div 2 - 1, (MIN + MAX) \div 2, MAX - 1, MAX,
            MAX + 1, cm(20) },
      delivered : BOOLEAN]

\* the SmartParking object after a check_parking() call whose filter
\* returned in.d
zone_after(in) ==
  occupancy_logic([parking EXCEPT !.last_distance = in.d],
                  ticks_ms(clock + in.dt), in.d, in.delivered)

\* where the distance of a call lies: beyond the near threshold by no more
\* than the tolerance; in the approach band, beyond the stop limit in force
\* and not beyond the far threshold; below the middle of the band between
\* the near and the far threshold; and whether the dwell of the occupied
\* timer is complete at the time of the call
zone(in) ==
  LET MIN == cm(parking.config.ULTRASONIC_MIN_DISTANCE)
      MAX == cm(parking.config.ULTRASONIC_MAX_DISTANCE)
  IN [tolerance |-> MIN < in.d /\ in.d <= MIN + cm(1),
      approach |-> limit(parking) < in.d /\ in.d <= MAX,
      below_midpoint |-> in.d < (MIN + MAX) \div 2,
      dwell_complete |->
        ticks_diff(ticks_ms(clock + in.dt), parking.occupied_timer)
          >= parking.config.ULTRASONIC_OCCUPIED_CONFIRM]

\* C28 as stated: on a Free spot with the occupied timer running, a distance
\* beyond the near threshold by no more than 1 cm leaves the timer running
\* with its start time unchanged; with the timer not running the same
\* distance does not start it; a distance more than 1 cm beyond the near
\* threshold leaves the timer unset.
C28_ToleranceKeepsTimer ==
  \A in \in ZoneCalls :
    (~parking.car_parked /\ ~parking.gas_alarm) =>
      /\ (parking.occupied_timer # 0 /\ zone(in).tolerance) =>
           zone_after(in).occupied_timer = parking.occupied_timer
      /\ (parking.occupied_timer = 0 /\ zone(in).tolerance) =>
           zone_after(in).occupied_timer = 0
      /\ in.d > cm(parking.config.ULTRASONIC_MIN_DISTANCE) + cm(1) =>
           zone_after(in).occupied_timer = 0

\* C28 amended: as stated, except that the check at which the dwell
\* completes counts the distance inside the tolerance as a stop like any
\* other, so the spot becomes Occupied and the timer is cleared; until then
\* the spot stays Free and the timer keeps its start time.
C28_ToleranceKeepsTimerUntilConfirmed ==
  \A in \in ZoneCalls :
    (~parking.car_parked /\ ~parking.gas_alarm) =>
      /\ (parking.occupied_timer # 0 /\ zone(in).tolerance) =>
           IF zone(in).dwell_complete
           THEN /\ zone_after(in).car_parked
                /\ zone_after(in).occupied_timer = 0
           ELSE /\ ~zone_after(in).car_parked
                /\ zone_after(in).occupied_timer = parking.occupied_timer
      /\ (parking.occupied_timer = 0 /\ zone(in).tolerance) =>
           /\ ~zone_after(in).car_parked
           /\ zone_after(in).occupied_timer = 0
      /\ in.d > cm(parking.config.ULTRASONIC_MIN_DISTANCE) + cm(1) =>
           zone_after(in).occupied_timer = 0

\* a check has just started the occupied timer of a Free spot, and a further
\* check one second later at 4 cm, the end of the tolerance, leaves it
\* running from the same start
C28_Witness ==
  /\ op = "check_parking"
  /\ ~parking.car_parked
  /\ ~parking.gas_alarm
  /\ parking.occupied_timer = ticks_ms(clock)
  /\ \E in \in ZoneCalls :
       /\ in.d = cm(parking.config.ULTRASONIC_MIN_DISTANCE) + cm(1)
       /\ ~zone(in).dwell_complete
       /\ zone_after(in).occupied_timer = parking.occupied_timer
       /\ ~zone_after(in).car_parked

\* C29: on a Free spot a distance in the approach band leaves the occupied
\* timer unset and assistance active, with the parking tone sounding at
\* 1500 Hz if the distance is below the middle of the band between the near
\* and the far threshold and at 800 Hz otherwise; a distance beyond the far
\* threshold leaves assistance off and no parking tone sounding.
C29_ApproachTones ==
  \A in \in ZoneCalls :
    (~parking.car_parked /\ ~parking.gas_alarm) =>
      /\ zone(in).approach =>
           /\ zone_after(in).occupied_timer = 0
           /\ zone_after(in).parking_assist
           /\ zone_after(in).buzzer.mode = "parking"
           /\ zone_after(in).buzzer.duty > 0
           /\ zone_after(in).buzzer.freq =
                IF zone(in).below_midpoint THEN 1500 ELSE 800
      /\ in.d > cm(parking.config.ULTRASONIC_MAX_DISTANCE) =>
           /\ ~zone_after(in).parking_assist
           /\ zone_after(in).buzzer.mode # "parking"
           /\ zone_after(in).occupied_timer = 0

(***************************************************************************)
(* Properties of the burst filter, under SpecPark                          *)
(***************************************************************************)
\* bursts of seven readings for the filter: the bursts of the occupancy
\* checks; seven valid readings with a low and a high outlier; the same five
\* valid readings among different invalid ones (a timeout and an over-range
\* echo, the two ends of the plausible range); four valid readings; one
\* valid reading just inside each end of the range
FilterBursts ==
  Bursts \cup
  { <<cm(2), cm(20), cm(5), cm(5), cm(6), cm(5), cm(5)>>,
    <<cm(4), cm(-1), cm(9), cm(6), cm(350), cm(3), cm(5)>>,
    <<cm(4), cm(1) \div 2, cm(9), cm(6), cm(300), cm(3), cm(5)>>,
    <<cm(-1), cm(8), cm(2), cm(-1), cm(20), cm(-1), cm(6)>>,
    <<cm(-1), 0, cm(1) \div 2 + 1, cm(-1), cm(350), cm(300), cm(-1)>>,
    <<cm(300) - 1, cm(-1), cm(-1), cm(-1), cm(-1), cm(-1), cm(300)>> }

\* what the filter makes of a burst after the previous output last: the
\* samples strictly between 0.5 cm and 300 cm, their number, the lowest and
\* the highest of them, the mean of all but one lowest and one highest of
\* five or more and of all of fewer, and the output, the mean on the first
\* call and 0.7 * mean + 0.3 * last after it, in whole tenths of a centimetre
filtered(burst, last) ==
  LET v == SelectSeq(burst, LAMBDA d : 2 * d > cm(1) /\ d < cm(300))
      lo == CHOOSE x \in {v[i] : i \in DOMAIN v} : \A i \in DOMAIN v : x <= v[i]
      hi == CHOOSE x \in {v[i] : i \in DOMAIN v} : \A i \in DOMAIN v : x >= v[i]
      current_avg == IF Len(v) >= 5
                     THEN (sum(v) - lo - hi) \div (Len(v) - 2)
                     ELSE sum(v) \div Len(v)
  IN IF v = <<>>
     THEN [valid |-> 0, output |-> last]
     ELSE [valid |-> Len(v), lowest |-> lo, highest |-> hi,
           output |-> IF last = cm(NO_DISTANCE)
                      THEN current_avg
                      ELSE (7 * current_avg + 3 * last) \div 10]

\* C30 as stated: the samples outside 0.5 cm .. 300 cm do not influence the
\* output; the output is the mean of the valid samples, without one lowest
\* and one highest when five or more are valid, on the first call, and 0.7
\* of that mean plus 0.3 of the previous output after it; and it lies
\* between the smallest valid sample and the larger of the largest valid
\* sample and the previous output.
C30_FilterOutput ==
  \A burst \in FilterBursts :
    LET f == filtered(burst, parking.last_distance)
        out == get_filtered_distance(parking, burst)
    IN /\ out = f.output
       /\ f.valid > 0 =>
            /\ f.lowest <= out
            /\ out <= IF parking.last_distance = cm(NO_DISTANCE)
                      THEN f.highest
                      ELSE Max(f.highest, parking.last_distance)

\* C30 amended: as stated, except that after the first call the output lies
\* between the smaller of the smallest valid sample and the previous output
\* and the larger of the largest valid sample and the previous output.
C30_FilterOutputWithinHistory ==
  \A burst \in FilterBursts :
    LET f == filtered(burst, parking.last_distance)
        out == get_filtered_distance(parking, burst)
    IN /\ out = f.output
       /\ f.valid > 0 =>
            IF parking.last_distance = cm(NO_DISTANCE)
            THEN f.lowest <= out /\ out <= f.highest
            ELSE /\ Min(f.lowest, parking.last_distance) <= out
                 /\ out <= Max(f.highest, parking.last_distance)

\* an occupancy check has just stored a filtered distance below 3 cm: a
\* burst of five valid samples from 3 cm to 9 cm among two invalid ones then
\* filters to a value between them, and a burst of an empty bay to a value
\* below its smallest sample
C30_Witness ==
  /\ op = "check_parking"
  /\ parking.last_distance < cm(3)
  /\ \E burst \in FilterBursts :
       LET f == filtered(burst, parking.last_distance)
       IN /\ f.valid = 5
          /\ f.lowest = cm(3)
          /\ f.highest = cm(9)
          /\ get_filtered_distance(parking, burst) > f.lowest
          /\ get_filtered_distance(parking, burst) < f.highest
  /\ \E burst \in FilterBursts :
       LET f == filtered(burst, parking.last_distance)
       IN /\ f.valid = 7
          /\ get_filtered_distance(parking, burst) < f.lowest
          /\ get_filtered_distance(parking, burst) > parking.last_distance

(***************************************************************************)
(* Properties of the reset of the configuration, under SpecGas             *)
(***************************************************************************)
\* C31: the reset-config command leaves the gas threshold, the gas
\* hysteresis and the lux threshold at the values the configuration holds
\* at startup, whatever the threshold updates before it had set.
C31_ResetRestoresStartup ==
  \A sent \in 0..3 :
    LET c == reset_config(parking, sent).config
    IN /\ c.MQ2_THRESHOLD = ConfigInit.MQ2_THRESHOLD
       /\ c.MQ2_HYSTERESIS = ConfigInit.MQ2_HYSTERESIS
       /\ c.LUX_THRESHOLD = ConfigInit.LUX_THRESHOLD

(***************************************************************************)
(* Invariants of the gate, checked under Spec                              *)
(***************************************************************************)
\* C32: after every update(), whatever the inputs and the remote requests,
\* the angle is between 0 and 90 and the target is 0 or 90; Opening has
\* target 90 and Closing target 0; Idle and Green have angle 0; WaitClear and
\* ManualOpen have angle 90; the state is one of the six defined states and
\* get_state() does not return "UNKNOWN".
C32_AngleAgreesWithState ==
  /\ SERVO_DOWN <= servo.servo_angle /\ servo.servo_angle <= SERVO_UP
  /\ servo.target_angle \in {SERVO_DOWN, SERVO_UP}
  /\ servo.state = STATE_OPENING => servo.target_angle = SERVO_UP
  /\ servo.state = STATE_CLOSING => servo.target_angle = SERVO_DOWN
  /\ servo.state \in {STATE_IDLE, STATE_GREEN} =>
       servo.servo_angle = SERVO_DOWN
  /\ servo.state \in {STATE_WAIT_CLEAR, STATE_MANUAL_OPEN} =>
       servo.servo_angle = SERVO_UP
  /\ servo.state \in {STATE_IDLE, STATE_GREEN, STATE_OPENING,
                      STATE_WAIT_CLEAR, STATE_CLOSING, STATE_MANUAL_OPEN}
  /\ get_state(servo) # "UNKNOWN"

\* an update() has just ended a forced opening in ManualOpen at 90 degrees
C32_Witness ==
  /\ op = "update"
  /\ servo.state = STATE_MANUAL_OPEN
  /\ servo.servo_angle = SERVO_UP
  /\ servo.target_angle = SERVO_UP
  /\ clear_run = -1

\* C33: after every update() the red and the green light are not both on,
\* the yellow light is on only in Opening or Closing, and red and green are
\* both off in Opening, WaitClear, Closing and ManualOpen.
C33_LightsExclusive ==
  LET t == servo.traffic_light
  IN /\ ~(t.red /\ t.green)
     /\ t.yellow => servo.state \in {STATE_OPENING, STATE_CLOSING}
     /\ servo.state \in {STATE_OPENING, STATE_WAIT_CLEAR, STATE_CLOSING,
                         STATE_MANUAL_OPEN} => ~t.red /\ ~t.green

\* an update() has just started an automatic opening, with green and red
\* off
C33_Witness ==
  /\ op = "update"
  /\ servo.state = STATE_OPENING
  /\ servo.servo_angle = SERVO_DOWN
  /\ ~servo.manual_mode
  /\ ~servo.traffic_light.green
  /\ ~servo.traffic_light.red
  /\ servo.last_servo_move = ticks_ms(clock)

(***************************************************************************)
(* Safety of the gate, checked under Spec                                  *)
(***************************************************************************)
\* C34: an update() during which either presence sensor detects does not
\* lower the angle, in any state.
C34_NoClosingStepOnDetection ==
  \A in \in GateCalls(servo) :
    ~clear(in) => after(in).servo_angle >= servo.servo_angle

\* a gate on its way down with a closing step due, on which an update() with
\* the entrance sensor detecting leaves the angle where it is
C34_Witness ==
  /\ op = "update"
  /\ servo.state = STATE_CLOSING
  /\ servo.servo_angle < SERVO_UP
  /\ servo.servo_angle > SERVO_DOWN
  /\ \E in \in GateCalls(servo) :
       /\ in.ent = 0 /\ in.exit = 1
       /\ ticks_diff(ticks_ms(clock + in.dt), servo.last_servo_move)
            >= SERVO_INTERVAL
       /\ after(in).servo_angle = servo.servo_angle
       /\ after(in).target_angle = SERVO_UP

\* C35: an update() takes the gate into Opening only on an exit detection in
\* Idle or Green, on a button press in Green with the lot not full, on an
\* accepted remote open, or on a reversal from Closing; and with the lot full,
\* the exit sensor clear and no remote open pending, an update() of an Idle
\* or Green gate leaves it Idle and closed whatever the entrance sensor and
\* the button do.
C35_OpeningOnlyOnCause ==
  \A in \in GateCalls(servo) :
    /\ (servo.state # STATE_OPENING /\ after(in).state = STATE_OPENING) =>
         \/ servo.state \in {STATE_IDLE, STATE_GREEN} /\ in.exit = 0
         \/ servo.state = STATE_GREEN /\ in.btn = 0 /\ ~in.full
         \/ servo.remote_open_requested /\ servo.state # STATE_MANUAL_OPEN
         \/ servo.state = STATE_CLOSING /\ ~clear(in)
    /\ (servo.state \in {STATE_IDLE, STATE_GREEN} /\ in.full /\ in.exit = 1
          /\ ~servo.remote_open_requested) =>
         /\ after(in).state = STATE_IDLE
         /\ after(in).servo_angle = SERVO_DOWN
         /\ after(in).target_angle = SERVO_DOWN
         /\ ~after(in).remote_open_requested

\* a Green gate, which an update() with the button pressed opens when the
\* lot is not full and returns to Idle when it is
C35_Witness ==
  /\ op = "update"
  /\ servo.state = STATE_GREEN
  /\ ~servo.remote_open_requested
  /\ \E in \in GateCalls(servo) :
       /\ in.btn = 0 /\ in.ent = 0 /\ in.exit = 1 /\ ~in.full
       /\ after(in).state = STATE_OPENING
  /\ \E in \in GateCalls(servo) :
       /\ in.btn = 0 /\ in.ent = 0 /\ in.exit = 1 /\ in.full
       /\ after(in).state = STATE_IDLE

(***************************************************************************)
(* Progress of the gate: the main loop calls update() in every iteration   *)
(* and the tick counter advances between the calls                         *)
(***************************************************************************)
\* one iteration of the main loop: update() called after the tick counter
\* has advanced, by a step interval while the gate moves and by half the
\* dwell while it waits; from QuietTime on no vehicle is at either sensor
Tick ==
  \E in \in GateCalls(servo) :
    /\ in.dt > 0 \/ GateElapsed(servo) = {0}
    /\ clock >= QuietTime => clear(in)
    /\ clock + in.dt <= MaxFairTime
    /\ clock' = clock + in.dt
    /\ servo' = after(in)
    /\ clear_run' = clear_run_after(in)
    /\ interrupted' = interrupted_after(in)
    /\ op' = "update"
    /\ UNCHANGED <<parking, far_run, far_reset, near_run, near_reset, loop, ran,
                   ultrasonic>>

\* from QuietTime on no remote open arrives
NextFair ==
  \/ Tick
  \/ clock < QuietTime /\ RequestOpen
  \/ RequestClose

\* the loop keeps iterating
SpecFair == Init /\ [][NextFair]_vars /\ WF_vars(Tick)

\* C36: an update() of a gate in Opening leaves it in Opening, WaitClear or
\* ManualOpen, whatever the sensors, the button, the lot-full answer and the
\* remote requests; an update() one step interval after the last step
\* raises the angle by one step or ends the opening, so that 45 such
\* updates end it; and a gate in Opening reaches WaitClear or ManualOpen.
C36_OpeningCompletes ==
  /\ [](\A in \in GateCalls(servo) :
          servo.state = STATE_OPENING =>
            /\ after(in).state \in {STATE_OPENING, STATE_WAIT_CLEAR,
                                    STATE_MANUAL_OPEN}
            /\ after(in).servo_angle >= servo.servo_angle
            /\ ticks_diff(ticks_ms(clock + in.dt), servo.last_servo_move)
                 >= SERVO_INTERVAL =>
                 IF servo.servo_angle + SERVO_STEP >= SERVO_UP
                 THEN after(in).state # STATE_OPENING
                 ELSE after(in).servo_angle = servo.servo_angle + SERVO_STEP)
  /\ (servo.state = STATE_OPENING)
       ~> (servo.state \in {STATE_WAIT_CLEAR, STATE_MANUAL_OPEN})

\* an opening that began at 0 degrees has ended in WaitClear 45 step
\* intervals after it began
C36_Witness ==
  /\ op = "update"
  /\ servo.state = STATE_WAIT_CLEAR
  /\ servo.clear_start = 0
  /\ clock = BootTime + (SERVO_UP \div SERVO_STEP) * SERVO_INTERVAL

\* C37: with no remote open pending, an update() of a gate in WaitClear
\* leaves it in WaitClear or Closing, and an update() of a gate in Closing
\* with both sensors clear leaves it in Closing or Idle; once the sensors
\* stay clear and no remote open arrives, a gate in WaitClear enters
\* Closing, and a gate in Closing reaches Idle with angle 0 and the red
\* light on.
C37_WaitClearCloses ==
  /\ [](\A in \in GateCalls(servo) :
          ~servo.remote_open_requested =>
            /\ servo.state = STATE_WAIT_CLEAR =>
                 after(in).state \in {STATE_WAIT_CLEAR, STATE_CLOSING}
            /\ (servo.state = STATE_CLOSING /\ clear(in)) =>
                 \/ after(in).state = STATE_CLOSING
                 \/ /\ after(in).state = STATE_IDLE
                    /\ after(in).servo_angle = SERVO_DOWN
                    /\ after(in).traffic_light.red)
  /\ (servo.state = STATE_WAIT_CLEAR /\ clock >= QuietTime)
       ~> (servo.state = STATE_CLOSING)
  /\ (servo.state = STATE_CLOSING /\ clock >= QuietTime)
       ~> (/\ servo.state = STATE_IDLE
           /\ servo.servo_angle = SERVO_DOWN
           /\ servo.traffic_light.red)

\* a closing has ended in Idle at 0 degrees with red on, after a dwell that
\* began once the sensors had become clear for good: an earlier dwell had
\* been interrupted, or the gate had been reversed
C37_Witness ==
  /\ op = "update"
  /\ servo.state = STATE_IDLE
  /\ servo.servo_angle = SERVO_DOWN
  /\ servo.traffic_light.red
  /\ servo.clear_start >= QuietTime
  /\ servo.last_servo_move >= servo.clear_start + SAFE_DELAY

\* C38: a gate owes a manual opening when it is not in ManualOpen and either
\* a remote open is pending or it is in Opening in manual mode.  Right after
\* request_open() the gate is in ManualOpen or owes the opening; an update()
\* or a request_close() of a gate that owes it leaves the gate in ManualOpen
\* or still owing it, hence never in Closing or Idle; a request pending in
\* Closing reverses the gate, and one pending in Opening keeps it opening
\* and never ends in WaitClear; and a gate that owes the opening reaches
\* ManualOpen.
C38_RequestOpenEndsInManualOpen ==
  /\ [](LET owes(g) == /\ g.state # STATE_MANUAL_OPEN
                       /\ \/ g.remote_open_requested
                          \/ g.state = STATE_OPENING /\ g.manual_mode
        IN /\ op = "request_open" =>
                servo.state = STATE_MANUAL_OPEN \/ owes(servo)
           /\ owes(servo) => owes(request_close(servo))
           /\ \A in \in GateCalls(servo) :
                /\ owes(servo) =>
                     /\ after(in).state = STATE_MANUAL_OPEN \/ owes(after(in))
                     /\ after(in).state \in {STATE_OPENING, STATE_MANUAL_OPEN}
                /\ (servo.remote_open_requested /\ servo.state = STATE_CLOSING) =>
                     /\ after(in).state = STATE_OPENING
                     /\ after(in).target_angle = SERVO_UP
                     /\ after(in).servo_angle = servo.servo_angle)
  /\ (/\ servo.state # STATE_MANUAL_OPEN
      /\ \/ servo.remote_open_requested
         \/ servo.state = STATE_OPENING /\ servo.manual_mode)
       ~> (servo.state = STATE_MANUAL_OPEN)

\* request_open() has just been called on a gate part-way through an
\* opening, and some update() that follows takes a further opening step
C38_Witness ==
  /\ op = "request_open"
  /\ servo.state = STATE_OPENING
  /\ servo.servo_angle = 60
  /\ servo.clear_start = 0
  /\ ~servo.remote_close_requested
  /\ \E in \in GateCalls(servo) :
       /\ after(in).servo_angle > servo.servo_angle
       /\ after(in).state = STATE_OPENING

\* C39: whenever the buzzer is in Alarm mode and its output is not silent,
\* the output frequency is the commanded alarm frequency.
C39_AlarmFrequency ==
  (parking.buzzer.mode = "alarm" /\ parking.buzzer.duty > 0) =>
    parking.buzzer.freq = parking.buzzer.alarm_freq

\* C40: occupancy checks are skipped while the gas alarm is active, so of a
\* dwell that was running when the alarm rose only the time before the alarm
\* was spent checking.  When a check_gas() clears the alarm, the first
\* check_parking() that follows does not flip the occupancy state if that
\* time, even with the time since the clearing added, is shorter than the
\* confirmation time.
C40_DwellCountsChecks ==
  [][(parking.gas_alarm /\ ~parking'.gas_alarm) =>
       \A in \in ParkCalls :
         LET now == ticks_ms(clock' + in.dt)
             p == check_parking(parking', now, in.burst, in.delivered)
             rose == parking'.buzzer.alarm_timer
             checked(timer) == ticks_diff(rose, timer) + in.dt
         IN /\ (/\ ~parking'.car_parked
                /\ parking'.occupied_timer > 0
                /\ rose >= parking'.occupied_timer
                /\ checked(parking'.occupied_timer) <
                     parking'.config.ULTRASONIC_OCCUPIED_CONFIRM)
                 => ~p.car_parked
            /\ (/\ parking'.car_parked
                /\ parking'.free_timer > 0
                /\ rose >= parking'.free_timer
                /\ checked(parking'.free_timer) <
                     parking'.config.ULTRASONIC_FREE_CONFIRM)
                 => p.car_parked]_vars

====
